---- MODULE Spec2Model ----
(***************************************************************************)
(* Network Map Visualizer: the topology loader / layout engine             *)
(* (parseNetworkConfig) and the orthogonal edge routers.                   *)
(*                                                                         *)
(* Conventions of the model                                                *)
(*  - A JavaScript string that the code takes apart or builds (ids) is a   *)
(*    sequence of one-character strings; a string that is only compared    *)
(*    (a device type, an edge type) is a TLA+ string.                      *)
(*  - A property that the document leaves out is a field that is not in    *)
(*    the DOMAIN of the record; reading it gives Undefined.                *)
(*  - Layout coordinates are JavaScript doubles.  The layout only adds,    *)
(*    subtracts and halves integers, at most once per device type group,   *)
(*    so every value is an exact multiple of 1/Scale pixel and is held as  *)
(*    that integer multiple.  NaN is the value NaN.                        *)
(***************************************************************************)
EXTENDS Integers, Sequences, FiniteSets, TLC

VARIABLES
    doc,        \* the document (parsed YAML text) parseNetworkConfig is called on
    status,     \* "idle" | "ok" (the promise resolved) | "error" (it rejected)
    nodes,      \* the nodes returned
    edges,      \* the edges returned
    props,      \* EdgeProps given to an edge router: type, id, anchors
    routed,     \* "none" before an edge component has rendered, else its name
    path,       \* the SVG path (sequence of commands) the router produced
    yamlContent,        \* NetworkMap: the yamlContent prop
    isAdmin,            \* NetworkMap: the isAdmin prop
    loading,            \* NetworkMap: the document of the running setupNetwork
    rfNodes,            \* NetworkMap: nodes state (useNodesState)
    rfEdges,            \* NetworkMap: edges state (useEdgesState)
    isLoading,          \* NetworkMap: isLoading state
    error,              \* NetworkMap: error state, Null or a message
    atBegin,            \* NetworkMap (history): summary of the state in which
                        \* the setupNetwork that finished last had begun
    route,              \* the page shown: "/" or "/admin"
    authToken,          \* sessionStorage item network-map-auth-token
    editorText,         \* AdminPage: yamlContent state (the editor text)
    activeYamlContent,  \* AdminPage: activeYamlContent state
    isSaved,            \* AdminPage: isSaved state
    sampleFetch,        \* AdminPage: "none" | "pending" | "done", the fetch
                        \* of /sample-network.yaml started on mount
    edited,             \* AdminPage (history): handleEditorChange was called
                        \* since the page was mounted
    waypoints,          \* DraggableEdge: data.waypoints of the edge
    insertedAt,         \* DraggableEdge (history): for each waypoint, the
                        \* number of the insertion that added it
    isDragging,         \* DraggableEdge: isDragging state
    dragIndex,          \* DraggableEdge: dragIndex state, Null or an index
    callbacks,          \* DraggableEdge: the onMouseMove/onMouseUp of the
                        \* last render (useCallback), with what they closed over
    handlers,           \* DraggableEdge: the onMouseMove/onMouseUp seen by the
                        \* mouse-down handlers of the last render
    listeners,          \* the onMouseMove/onMouseUp registered on window
    lastEvent           \* DraggableEdge (history): the last mouse event

parseVars == <<doc, status, nodes, edges>>
routeVars == <<props, routed, path>>
mapVars == <<yamlContent, isAdmin, loading, rfNodes, rfEdges, isLoading, error, atBegin>>
adminVars == <<route, authToken, editorText, activeYamlContent, isSaved, sampleFetch, edited>>
dragVars == <<waypoints, insertedAt, isDragging, dragIndex, callbacks, handlers, listeners,
              lastEvent>>
vars == <<doc, status, nodes, edges, props, routed, path,
          yamlContent, isAdmin, loading, rfNodes, rfEdges, isLoading, error, atBegin,
          route, authToken, editorText, activeYamlContent, isSaved, sampleFetch, edited,
          waypoints, insertedAt, isDragging, dragIndex, callbacks, handlers, listeners,
          lastEvent>>

-----------------------------------------------------------------------------
(* Bounds of the model *)

\* longest device list of a site in the device-order family
MaxDevices == 3
\* most devices of one type in the group-count family
MaxPerGroup == 4
\* most connection declarations in the connection family
MaxConns == 2
\* largest forEach index used in the edge ids given to the routers
MaxEdgeIndex == 2

-----------------------------------------------------------------------------
(* Strings *)

Lower == <<"a","b","c","d","e","f","g","h","i","j","k","l","m",
           "n","o","p","q","r","s","t","u","v","w","x","y","z">>
Digits == <<"0","1","2","3","4","5","6","7","8","9">>

\* String.prototype.charCodeAt(0) on the characters the ids are made of
CharCodeAt(c) ==
    IF \E i \in 1..26 : Lower[i] = c
      THEN 96 + (CHOOSE i \in 1..26 : Lower[i] = c)
    ELSE IF \E i \in 1..10 : Digits[i] = c
      THEN 47 + (CHOOSE i \in 1..10 : Digits[i] = c)
    ELSE 45  \* "-"

RECURSIVE NumberToString(_)
\* `${n}` for a non-negative integer: its decimal digits
NumberToString(n) ==
    IF n < 10 THEN <<Digits[n + 1]>>
    ELSE NumberToString(n \div 10) \o <<Digits[(n % 10) + 1]>>

\* the value of a property the object does not have
Undefined == <<"undefined">>

\* `${v}` for a string or undefined
TemplateString(v) ==
    IF v = Undefined THEN <<"u","n","d","e","f","i","n","e","d">> ELSE v

Get(obj, field) == IF field \in DOMAIN obj THEN obj[field] ELSE Undefined

\* String.prototype.startsWith
StartsWith(s, prefix) ==
    /\ Len(s) >= Len(prefix)
    /\ SubSeq(s, 1, Len(prefix)) = prefix

\* String.prototype.includes
Includes(s, sub) ==
    \E i \in 1..(Len(s) - Len(sub) + 1) : SubSeq(s, i, i + Len(sub) - 1) = sub

-----------------------------------------------------------------------------
(* Numbers *)

Scale == 2 ^ 6
Px(n) == n * Scale
\* NaN, held as a value no coordinate of the model can take
NaN == 0 - (2 ^ 30)

Min(a, b) == IF a <= b THEN a ELSE b
\* Math.max: NaN if either argument is NaN
MathMax(a, b) == IF a = NaN \/ b = NaN THEN NaN ELSE IF a >= b THEN a ELSE b
MaxOfSet(S) == CHOOSE m \in S : \A n \in S : n <= m
\* Math.ceil(a / b) for integers a >= 0, b > 0
CeilDiv(a, b) == (a + b - 1) \div b
Abs(a) == IF a < 0 THEN 0 - a ELSE a
\* a + b and a / 2 on doubles: NaN in, NaN out
Plus(a, b) == IF a = NaN \/ b = NaN THEN NaN ELSE a + b
Half(a) == IF a = NaN THEN NaN ELSE a \div 2

-----------------------------------------------------------------------------
(* parseNetworkConfig: tables *)

siteSpacing == 1200
maxDevicesPerRow == 3

deviceTypeConfig ==
    [router     |-> [width |-> 180, height |-> 120, spacing |-> 280],
     firewall   |-> [width |-> 180, height |-> 120, spacing |-> 280],
     switch     |-> [width |-> 180, height |-> 120, spacing |-> 280],
     server     |-> [width |-> 180, height |-> 140, spacing |-> 280],
     hypervisor |-> [width |-> 220, height |-> 180, spacing |-> 320],
     vpn        |-> [width |-> 180, height |-> 120, spacing |-> 280],
     storage    |-> [width |-> 180, height |-> 120, spacing |-> 280]]

deviceTypeOrder ==
    [router |-> 1, firewall |-> 2, vpn |-> 3, switch |-> 4,
     server |-> 5, hypervisor |-> 6, storage |-> 7]

\* Object.entries(deviceTypeOrder): the keys in insertion order
deviceTypeOrderEntries ==
    <<"router", "firewall", "vpn", "switch", "server", "hypervisor", "storage">>

\* device.type used as a property key: undefined reads the key "undefined"
DeviceType(device) == IF "type" \in DOMAIN device THEN device.type ELSE "undefined"

\* deviceTypeConfig[type] || deviceTypeConfig['server']
TypeConfigOf(type) ==
    IF type \in DOMAIN deviceTypeConfig THEN deviceTypeConfig[type]
    ELSE deviceTypeConfig["server"]

\* deviceTypeOrder[type] || 99
OrderOf(type) ==
    IF type \in DOMAIN deviceTypeOrder THEN deviceTypeOrder[type] ELSE 99

RECURSIVE ConcatAll(_)
ConcatAll(seqs) ==
    IF Len(seqs) = 0 THEN <<>> ELSE Head(seqs) \o ConcatAll(Tail(seqs))

\* [...site.devices].sort(by OrderOf): Array.prototype.sort is stable, so the
\* devices of one order value keep their declared order
SortedDevices(devices) ==
    LET orders == <<1, 2, 3, 4, 5, 6, 7, 99>>
        WithOrder(o) ==
            LET Test(d) == OrderOf(DeviceType(d)) = o IN SelectSeq(devices, Test)
    IN  ConcatAll([i \in 1..Len(orders) |-> WithOrder(orders[i])])

\* devicesByType[type]: the sorted devices of that type, in order
DevicesByType(sortedDevices, type) ==
    LET Test(d) == DeviceType(d) = type IN SelectSeq(sortedDevices, Test)

\* Array.prototype.find, given the outcome of the test on each element: the
\* index of the first element that passes, 0 if none
FindIndex(tests) ==
    IF \E i \in 1..Len(tests) : tests[i]
      THEN CHOOSE i \in 1..Len(tests) : tests[i] /\ \A j \in 1..(i - 1) : ~tests[j]
    ELSE 0

-----------------------------------------------------------------------------
(* parseNetworkConfig: site positions and device placement *)

\* sitePositions[id]: written once per site in document order, so a later
\* site with the same id overwrites the entry
SitePosition(sites, id) ==
    LET last == CHOOSE i \in 1..Len(sites) :
                  /\ Get(sites[i], "id") = id
                  /\ \A j \in (i + 1)..Len(sites) : Get(sites[j], "id") # id
    IN  [x |-> Px((last - 1) * siteSpacing + 100), y |-> Px(100)]

\* mutant of DevicePosition: the row is forgotten, every device is put in
\* the first row of its group
DevicePosition_noRow(startX, currentY, typeConfig, deviceIndex) ==
    [x |-> Plus(startX, (deviceIndex % maxDevicesPerRow) * Px(typeConfig.spacing)),
     y |-> currentY]

\* the position of the device with index deviceIndex (from 0) of its group
DevicePosition(startX, currentY, typeConfig, deviceIndex) ==
    LET row == deviceIndex \div maxDevicesPerRow
        col == deviceIndex % maxDevicesPerRow
    IN  [x |-> Plus(startX, col * Px(typeConfig.spacing)),
         y |-> currentY + row * Px(typeConfig.height + 60)]

\* the node pushed for a device; height is typeConfig.height, the height the
\* site dimensions are computed with (style.height is left undefined for a
\* hypervisor, which auto-sizes)
DeviceNode(site, device, typeConfig, position) ==
    [id |-> Get(device, "id"), type |-> "networkNode",
     x |-> position.x, y |-> position.y,
     width |-> Px(typeConfig.width), height |-> Px(typeConfig.height),
     siteId |-> Get(site, "id")]

\* mutant of NextGroupY: the group is taken to have a single row
NextGroupY_singleRow(currentY, rows, typeConfig) ==
    currentY + Px(typeConfig.height) + Px(40)

\* currentY for the next device type group
NextGroupY(currentY, rows, typeConfig) ==
    currentY + rows * Px(typeConfig.height + 60) + Px(40)

RECURSIVE LayoutGroups(_, _, _, _, _, _)
\* Object.entries(deviceTypeOrder).forEach from entry k on.
\* acc = [nodes, width, height]: the device nodes pushed so far and
\* siteDimensions[site.id]
LayoutGroups(site, base, sortedDevices, k, currentY, acc) ==
    IF k > Len(deviceTypeOrderEntries) THEN acc
    ELSE
      LET type == deviceTypeOrderEntries[k]
          devices == DevicesByType(sortedDevices, type)
      IN
      IF Len(devices) = 0
        THEN LayoutGroups(site, base, sortedDevices, k + 1, currentY, acc)
      ELSE
        LET typeConfig == TypeConfigOf(type)
            devicesPerRow == Min(Len(devices), maxDevicesPerRow)
            rows == CeilDiv(Len(devices), maxDevicesPerRow)
            totalWidth == devicesPerRow * Px(typeConfig.spacing)
            startX == Plus(base.x + Px(typeConfig.spacing) \div 2 - totalWidth \div 2,
                           Half(acc.width))
            placed == [i \in 1..Len(devices) |->
                         DeviceNode(site, devices[i], typeConfig,
                                    DevicePosition(startX, currentY, typeConfig, i - 1))]
            width == IF acc.width = NaN \/ startX = NaN THEN NaN
                     ELSE MaxOfSet({acc.width} \cup
                            {placed[i].x + Px(typeConfig.width) - base.x + Px(100) :
                               i \in 1..Len(placed)})
            height == MaxOfSet({acc.height} \cup
                        {placed[i].y + Px(typeConfig.height) - base.y + Px(100) :
                           i \in 1..Len(placed)})
        IN  LayoutGroups(site, base, sortedDevices, k + 1,
                         NextGroupY(currentY, rows, typeConfig),
                         [nodes |-> acc.nodes \o placed,
                          width |-> width, height |-> height])

-----------------------------------------------------------------------------
(* parseNetworkConfig: connections *)

connectionPrefix == <<"c","o","n","n","e","c","t","i","o","n">>
vpnPrefix == <<"v","p","n">>
trunkPrefix == <<"t","r","u","n","k">>
sanPrefix == <<"s","a","n">>

\* `${prefix}-${sourceId}-${targetId}-${index}`
EdgeId(prefix, sourceId, targetId, index) ==
    prefix \o <<"-">> \o TemplateString(sourceId) \o <<"-">>
           \o TemplateString(targetId) \o <<"-">> \o NumberToString(index)

\* the edge pushed for one connection; index is the forEach index (the last
\* component of the id; also data.vpnIndex / trunkIndex / sanIndex)
MakeEdge(prefix, edgeType, device, targetId, index) ==
    [id |-> EdgeId(prefix, Get(device, "id"), targetId, index),
     source |-> Get(device, "id"), target |-> targetId,
     type |-> edgeType, index |-> index]

\* device[field].forEach((connection, idx) => edges.push(...)), for the
\* connection kinds whose target is connection.to
DirectEdges(device, field, prefix, edgeType) ==
    IF field \notin DOMAIN device THEN <<>>
    ELSE [i \in 1..Len(device[field]) |->
            MakeEdge(prefix, edgeType, device, Get(device[field][i], "to"), i - 1)]

ConnectionEdges(device) ==
    DirectEdges(device, "connections", connectionPrefix, "connectionEdge")
TrunkEdges(device) ==
    DirectEdges(device, "trunk_connections", trunkPrefix, "trunkEdge")
SanEdges(device) ==
    DirectEdges(device, "san_connections", sanPrefix, "sanEdge")

\* networkConfig.sites.find(s => s.id === to_site): its index, 0 if none
TargetSiteIndex(sites, toSite) ==
    FindIndex([i \in 1..Len(sites) |-> Get(sites[i], "id") = toSite])

\* mutant of TargetRouterIndex: the last router of the site is taken
TargetRouterIndex_last(targetSite) ==
    LET routers == {i \in 1..Len(targetSite.devices) :
                      "type" \in DOMAIN targetSite.devices[i]
                        /\ targetSite.devices[i].type = "router"}
    IN  IF routers = {} THEN 0 ELSE MaxOfSet(routers)

\* targetSite.devices.find(d => d.type === 'router'): its index, 0 if none
TargetRouterIndex(targetSite) ==
    FindIndex([i \in 1..Len(targetSite.devices) |->
                 "type" \in DOMAIN targetSite.devices[i]
                   /\ targetSite.devices[i].type = "router"])

NoEdge == [none |-> TRUE]

\* the edge of one vpn_connections entry, NoEdge when the target site or its
\* router is not found
VpnEdge(sites, device, vpnConnection, vpnIndex) ==
    LET s == TargetSiteIndex(sites, Get(vpnConnection, "to_site")) IN
    IF s = 0 THEN NoEdge
    ELSE LET r == TargetRouterIndex(sites[s]) IN
         IF r = 0 THEN NoEdge
         ELSE MakeEdge(vpnPrefix, "vpnEdge", device,
                       Get(sites[s].devices[r], "id"), vpnIndex)

\* mutant of VpnEdges: the loop is left at the first entry that does not
\* resolve, so the entries after it are lost
VpnEdges_stopAtUnresolved(sites, device) ==
    IF "vpn_connections" \notin DOMAIN device THEN <<>>
    ELSE LET all == [i \in 1..Len(device.vpn_connections) |->
                       VpnEdge(sites, device, device.vpn_connections[i], i - 1)]
             stop == FindIndex([i \in 1..Len(all) |-> all[i] = NoEdge])
         IN  IF stop = 0 THEN all ELSE SubSeq(all, 1, stop - 1)

\* device.vpn_connections.forEach(...)
VpnEdges(sites, device) ==
    IF "vpn_connections" \notin DOMAIN device THEN <<>>
    ELSE LET Pushed(e) == e # NoEdge
         IN  SelectSeq([i \in 1..Len(device.vpn_connections) |->
                          VpnEdge(sites, device, device.vpn_connections[i], i - 1)],
                       Pushed)

\* the body of sortedDevices.forEach((device) => ...): regular, VPN, trunk
\* and SAN connections of one device, in that order
DeviceEdges(sites, device) ==
    ConnectionEdges(device) \o VpnEdges(sites, device)
        \o TrunkEdges(device) \o SanEdges(device)

-----------------------------------------------------------------------------
(* parseNetworkConfig: site box, header and the whole function *)

sitePrefix == <<"s","i","t","e","-">>
bgSuffix == <<"-","b","g">>
headerSuffix == <<"-","h","e","a","d","e","r">>

\* minWidth = Math.max(800, Math.min(3, n) * (sum of the widths / n)):
\* 0 / 0 is NaN for a site without devices
MinWidth(sortedDevices) ==
    LET n == Len(sortedDevices)
        sizes == [i \in 1..n |-> TypeConfigOf(DeviceType(sortedDevices[i])).width]
        Sum[i \in 0..n] == IF i = 0 THEN 0 ELSE Sum[i - 1] + sizes[i]
    IN  IF n = 0 THEN NaN
        ELSE IF Min(3, n) * Sum[n] <= 800 * n THEN Px(800)
        ELSE (Min(3, n) * Px(Sum[n])) \div n

\* minHeight = Math.max(400, rows * 300)
MinHeight(devices) ==
    LET rows == CeilDiv(Len(devices), maxDevicesPerRow)
    IN  IF rows * 300 > 400 THEN Px(rows * 300) ELSE Px(400)

\* siteDimensions[site.id] after "Add padding to site dimensions"
PaddedDimensions(site, sortedDevices, dim) ==
    [width |-> MathMax(MinWidth(sortedDevices), Plus(dim.width, Px(200))),
     height |-> MathMax(MinHeight(site.devices), dim.height + Px(200))]

BackgroundNode(site, base, dim) ==
    [id |-> sitePrefix \o TemplateString(Get(site, "id")) \o bgSuffix,
     type |-> "group",
     x |-> base.x - Px(100), y |-> base.y - Px(150),
     width |-> dim.width, height |-> dim.height + Px(100),
     siteId |-> Get(site, "id")]

HeaderNode(site, base) ==
    [id |-> sitePrefix \o TemplateString(Get(site, "id")) \o headerSuffix,
     type |-> "siteHeader",
     x |-> base.x + Px(100), y |-> base.y - Px(180),
     width |-> Px(280), height |-> Px(50),
     siteId |-> Undefined]

RECURSIVE ProcessSites(_, _, _)
\* the second networkConfig.sites.forEach, from site k on.
\* acc = [nodes, edges, dims]: dims is siteDimensions, keyed by site id
ProcessSites(sites, k, acc) ==
    IF k > Len(sites) THEN acc
    ELSE
      LET site == sites[k]
          id == Get(site, "id")
          siteBasePosition == SitePosition(sites, id)
          sortedDevices == SortedDevices(site.devices)
          laid == LayoutGroups(site, siteBasePosition, sortedDevices, 1,
                               siteBasePosition.y + Px(120),
                               [nodes |-> <<>>, width |-> acc.dims[id].width,
                                height |-> acc.dims[id].height])
          siteEdges == ConcatAll([i \in 1..Len(sortedDevices) |->
                                    DeviceEdges(sites, sortedDevices[i])])
          dim == PaddedDimensions(site, sortedDevices, laid)
      IN  ProcessSites(sites, k + 1,
            [nodes |-> <<BackgroundNode(site, siteBasePosition, dim)>>
                         \o acc.nodes \o laid.nodes
                         \o <<HeaderNode(site, siteBasePosition)>>,
             edges |-> acc.edges \o siteEdges,
             dims |-> [acc.dims EXCEPT ![id] = dim]])

\* yaml.load on a text that is not well-formed YAML
MalformedDoc == [yamlError |-> TRUE]

\* the places where the function throws (TypeError on a property of undefined)
\* or yaml.load does: all end in the catch block, which rethrows
Throws(d) ==
    \/ "yamlError" \in DOMAIN d                    \* yaml.load throws
    \/ "sites" \notin DOMAIN d                     \* networkConfig.sites.forEach
    \/ \E i \in 1..Len(d.sites) :
          \/ "devices" \notin DOMAIN d.sites[i]    \* site.devices.length
          \/ "id" \notin DOMAIN d.sites[i]         \* site.id.startsWith('main')

\* what the returned promise settles to
ParseResult(d) ==
    IF Throws(d) THEN [status |-> "error", nodes |-> <<>>, edges |-> <<>>]
    ELSE
      LET ids == {Get(d.sites[i], "id") : i \in 1..Len(d.sites)}
          r == ProcessSites(d.sites, 1,
                 [nodes |-> <<>>, edges |-> <<>>,
                  dims |-> [id \in ids |-> [width |-> 0, height |-> 0]]])
      IN  [status |-> "ok", nodes |-> r.nodes, edges |-> r.edges]

-----------------------------------------------------------------------------
(* The documents parseNetworkConfig is run on *)

KnownTypes == {"router", "firewall", "vpn", "switch", "server", "hypervisor", "storage"}
AllTypes == KnownTypes \cup {"gateway"}

mainId == <<"m","a","i","n">>
branchId == <<"b">>
cellId == <<"c">>
missingId == <<"z","z">>

\* devices of the given types, with ids <letter>1, <letter>2, ...
GenDevices(letter, types) ==
    [i \in 1..Len(types) |-> [id |-> <<letter>> \o NumberToString(i), type |-> types[i]]]

BranchSite == [id |-> branchId, devices |-> GenDevices("b", <<"switch", "router", "router">>)]
CellSite == [id |-> cellId, devices |-> GenDevices("c", <<"server">>)]

\* family 1: every device list of at most MaxDevices devices over all types
DeviceOrderDocs ==
    {[sites |-> <<[id |-> mainId, devices |-> GenDevices("a", types)], BranchSite>>] :
        types \in UNION {[1..n -> AllTypes] : n \in 0..MaxDevices}}

RECURSIVE Repeat(_, _)
Repeat(x, n) == IF n = 0 THEN <<>> ELSE <<x>> \o Repeat(x, n - 1)

\* family 2: up to MaxPerGroup devices of each of four types, declared in
\* the reverse of the layout order, followed by a second site
GroupTypes == <<"storage", "hypervisor", "switch", "router">>
GroupCountDocs ==
    {[sites |-> <<[id |-> mainId,
                   devices |-> GenDevices("a",
                      ConcatAll([i \in 1..Len(GroupTypes) |-> Repeat(GroupTypes[i], count[i])]))],
                  BranchSite>>] :
        count \in [1..Len(GroupTypes) -> 0..MaxPerGroup]}

\* family 3: three sites; the two devices of the first declare up to
\* MaxConns connections of any kind to targets that resolve or do not
Kinds == {"connections", "vpn_connections", "trunk_connections", "san_connections"}
DirectTargets == <<<<"a","2">>, <<"b","1">>, missingId>>
SiteTargets == <<branchId, cellId, missingId>>
Declarations == [owner : 1..2, kind : Kinds, target : 1..3]

ConnectionList(decls, owner, kind) ==
    LET Mine(c) == c.owner = owner /\ c.kind = kind
        mine == SelectSeq(decls, Mine)
    IN  [i \in 1..Len(mine) |->
           IF kind = "vpn_connections" THEN [to_site |-> SiteTargets[mine[i].target]]
           ELSE [to |-> DirectTargets[mine[i].target]]]

OwnerDevice(decls, owner, type) ==
    [id |-> <<"a">> \o NumberToString(owner), type |-> type,
     connections |-> ConnectionList(decls, owner, "connections"),
     vpn_connections |-> ConnectionList(decls, owner, "vpn_connections"),
     trunk_connections |-> ConnectionList(decls, owner, "trunk_connections"),
     san_connections |-> ConnectionList(decls, owner, "san_connections")]

ConnectionDocs ==
    {[sites |-> <<[id |-> mainId,
                   devices |-> <<OwnerDevice(decls, 1, "vpn"), OwnerDevice(decls, 2, "switch")>>],
                  BranchSite, CellSite>>] :
        decls \in UNION {[1..n -> Declarations] : n \in 0..MaxConns}}

\* family 4: documents that are malformed or lack a field
StructureDocs ==
    {MalformedDoc,
     [name |-> mainId],
     [sites |-> <<>>],
     [sites |-> <<[devices |-> GenDevices("a", <<"router">>)]>>],
     [sites |-> <<[id |-> mainId]>>],
     [sites |-> <<[id |-> mainId, devices |-> <<[type |-> "router"]>>]>>],
     [sites |-> <<[id |-> mainId, devices |-> <<[id |-> <<"a","1">>]>>]>>],
     [sites |-> <<[id |-> mainId, devices |-> <<>>], [id |-> mainId, devices |-> GenDevices("a", <<"router">>)]>>]}

\* family 5: device ids that contain '-': the devices a and a-b each
\* declare one connection of a kind to c or to b-c
HyphenTargets == {<<"c">>, <<"b","-","c">>}
HyphenDocs ==
    {[sites |-> <<[id |-> mainId,
                   devices |->
                     <<[id |-> <<"a">>, type |-> "router"] @@ (kind :> <<[to |-> first]>>),
                       [id |-> <<"a","-","b">>, type |-> "switch"] @@ (kind :> <<[to |-> second]>>),
                       [id |-> <<"c">>, type |-> "server"],
                       [id |-> <<"b","-","c">>, type |-> "server"]>>]>>] :
        kind \in Kinds \ {"vpn_connections"}, first \in HyphenTargets, second \in HyphenTargets}

Docs == DeviceOrderDocs \cup GroupCountDocs \cup ConnectionDocs \cup StructureDocs
            \cup HyphenDocs

-----------------------------------------------------------------------------
(* Specification of the loader: parseNetworkConfig is called on a document *)

RouteIdle == props = <<>> /\ routed = "none" /\ path = <<>>

\* null
Null == [null |-> TRUE]
\* the empty string: a text that is blank
BlankText == [blank |-> TRUE]

\* no NetworkMap is mounted
MapIdle ==
    /\ yamlContent = BlankText /\ isAdmin = FALSE /\ loading = Null
    /\ rfNodes = <<>> /\ rfEdges = <<>> /\ isLoading = TRUE /\ error = Null
    /\ atBegin = Null

\* no page is open
AdminIdle ==
    /\ route = "/" /\ authToken = Null
    /\ editorText = BlankText /\ activeYamlContent = BlankText /\ isSaved = TRUE
    /\ sampleFetch = "none" /\ edited = FALSE

\* dragIndex null
NoIndex == <<>>

\* no edge is mounted
DragIdle ==
    /\ waypoints = <<>> /\ insertedAt = <<>>
    /\ isDragging = FALSE /\ dragIndex = NoIndex
    /\ callbacks = Null /\ handlers = Null /\ listeners = <<>>
    /\ lastEvent = "none"

\* a document is given; nothing is parsed yet
Init ==
    /\ doc \in Docs
    /\ status = "idle" /\ nodes = <<>> /\ edges = <<>>
    /\ RouteIdle /\ MapIdle /\ AdminIdle /\ DragIdle

\* export async function parseNetworkConfig(yamlContent), run to completion
ParseNetworkConfig ==
    /\ status = "idle"
    /\ LET r == ParseResult(doc) IN
        /\ status' = r.status
        /\ nodes' = r.nodes
        /\ edges' = r.edges
    /\ UNCHANGED <<doc, routeVars, mapVars, adminVars, dragVars>>

Next == ParseNetworkConfig

Spec == Init /\ [][Next]_vars

-----------------------------------------------------------------------------
(* Vocabulary of the properties of the loader *)

\* the document has every field the schema requires
Complete(d) ==
    /\ "yamlError" \notin DOMAIN d
    /\ "sites" \in DOMAIN d
    /\ \A s \in 1..Len(d.sites) :
          /\ {"id", "devices"} \subseteq DOMAIN d.sites[s]
          /\ \A i \in 1..Len(d.sites[s].devices) :
                {"id", "type"} \subseteq DOMAIN d.sites[s].devices[i]

\* <<s, i>>: device i of site s
DeclaredDevices(d) ==
    UNION {{<<s, i>> : i \in 1..Len(d.sites[s].devices)} : s \in 1..Len(d.sites)}

DeviceAt(d, si) == d.sites[si[1]].devices[si[2]]

UniqueDeviceIds(d) ==
    \A a, b \in DeclaredDevices(d) : a # b => DeviceAt(d, a).id # DeviceAt(d, b).id

UniqueSiteIds(d) ==
    \A s, t \in 1..Len(d.sites) : s # t => d.sites[s].id # d.sites[t].id

\* a valid topology: complete, with unique site ids and unique device ids
Valid(d) == Complete(d) /\ UniqueSiteIds(d) /\ UniqueDeviceIds(d)

\* <<si, field, k>>: entry k (from 1) of the connection list `field` of device si
DeclaredConnections(d) ==
    UNION {UNION {{<<si, f, k>> : k \in 1..Len(DeviceAt(d, si)[f])} :
                     f \in Kinds \cap DOMAIN DeviceAt(d, si)} :
             si \in DeclaredDevices(d)}

EdgeTypeOf(field) ==
    CASE field = "connections" -> "connectionEdge"
      [] field = "vpn_connections" -> "vpnEdge"
      [] field = "trunk_connections" -> "trunkEdge"
      [] field = "san_connections" -> "sanEdge"

\* the target of a declared connection resolves
Resolves(d, c) ==
    LET entry == DeviceAt(d, c[1])[c[2]][c[3]] IN
    IF c[2] = "vpn_connections"
      THEN \E s \in 1..Len(d.sites) :
              /\ d.sites[s].id = entry.to_site
              /\ \E i \in 1..Len(d.sites[s].devices) : d.sites[s].devices[i].type = "router"
    ELSE \E si \in DeclaredDevices(d) : DeviceAt(d, si).id = entry.to

\* the edges emitted for a declared connection: those of its device, kind and index
EdgesFor(d, c) ==
    {e \in 1..Len(edges) :
        /\ edges[e].source = DeviceAt(d, c[1]).id
        /\ edges[e].type = EdgeTypeOf(c[2])
        /\ edges[e].index = c[3] - 1}

DeviceNodes == {n \in 1..Len(nodes) : nodes[n].type = "networkNode"}
BackgroundNodes == {n \in 1..Len(nodes) : nodes[n].type = "group"}

\* the placements of a declared device
PlacementsOf(d, si) == {n \in DeviceNodes : nodes[n].id = DeviceAt(d, si).id}

-----------------------------------------------------------------------------
(* C1 *)

\* C1 (as claimed): on a valid topology nothing is thrown, every connection
\* whose target resolves has exactly one edge and every connection whose
\* target does not resolve has none.
C1_OneEdgeIffResolved ==
    (status # "idle" /\ Valid(doc)) =>
        /\ status = "ok"
        /\ \A c \in DeclaredConnections(doc) :
              Cardinality(EdgesFor(doc, c)) = IF Resolves(doc, c) THEN 1 ELSE 0

-----------------------------------------------------------------------------
(* C2 *)

\* C2 (as claimed): on a topology with unique device ids every declared
\* device, whatever its type, has exactly one networkNode placement, and every
\* networkNode is the placement of a declared device.
C2_EveryDevicePlacedOnce ==
    (status = "ok" /\ Valid(doc)) =>
        /\ \A si \in DeclaredDevices(doc) : Cardinality(PlacementsOf(doc, si)) = 1
        /\ \A n \in DeviceNodes : \E si \in DeclaredDevices(doc) : n \in PlacementsOf(doc, si)

-----------------------------------------------------------------------------
(* C3 *)

\* the rectangles of two placements are disjoint on the x axis or on the y axis
Disjoint(a, b) ==
    \/ a.x + a.width <= b.x
    \/ b.x + b.width <= a.x
    \/ a.y + a.height <= b.y
    \/ b.y + b.height <= a.y

\* C3: within one site of a valid topology, the rectangles (position, with the
\* width and height of the size table) of two distinct device placements never
\* overlap, whatever the number of devices per type group.
C3_NoOverlapWithinSite ==
    (status = "ok" /\ Valid(doc)) =>
        \A m, n \in DeviceNodes :
            (m # n /\ nodes[m].siteId = nodes[n].siteId) => Disjoint(nodes[m], nodes[n])

\* C3 witness: a parsed site with two type groups, one of them wrapping
\* into a second row (two placements share x, two share y)
C3_Witness ==
    /\ status = "ok" /\ Valid(doc)
    /\ \E m, n \in DeviceNodes :
          /\ m # n /\ nodes[m].siteId = nodes[n].siteId
          /\ nodes[m].x = nodes[n].x /\ nodes[m].height = nodes[n].height
          /\ nodes[n].y = nodes[m].y + nodes[m].height + Px(60)
    /\ \E m, n \in DeviceNodes :
          /\ nodes[m].siteId = nodes[n].siteId
          /\ nodes[m].width # nodes[n].width
          /\ nodes[m].y < nodes[n].y

-----------------------------------------------------------------------------
(* C5 *)

\* C5 (as claimed): the x-ranges of the background boxes of two sites never
\* overlap: a box further left ends before the other begins.
C5_SiteBoxesDisjointOnX ==
    (status = "ok" /\ Valid(doc)) =>
        \A m, n \in BackgroundNodes :
            (nodes[m].x < nodes[n].x /\ nodes[m].width # NaN) =>
                nodes[m].x + nodes[m].width <= nodes[n].x

-----------------------------------------------------------------------------
(* C6 *)

\* C6 (as claimed): a device of a type outside the seven known ones is placed
\* with the "server" entry of the size table (width 180, height 140, spacing
\* 280 between neighbours of a row) below every known-type device of its site.
C6_UnknownTypePlacedAsServer ==
    (status = "ok" /\ Valid(doc)) =>
        \A si \in DeclaredDevices(doc) :
            DeviceAt(doc, si).type \notin KnownTypes =>
                \E n \in PlacementsOf(doc, si) :
                    /\ nodes[n].width = Px(180) /\ nodes[n].height = Px(140)
                    /\ \A m \in DeviceNodes :
                          (nodes[m].siteId = nodes[n].siteId /\ nodes[m].y = nodes[n].y) =>
                              (nodes[m].x - nodes[n].x) % Px(280) = 0
                    /\ \A sj \in DeclaredDevices(doc) :
                          (sj[1] = si[1] /\ DeviceAt(doc, sj).type \in KnownTypes) =>
                              \A m \in PlacementsOf(doc, sj) : nodes[m].y < nodes[n].y

-----------------------------------------------------------------------------
(* C7 *)

VpnConnections(d) == {c \in DeclaredConnections(d) : c[2] = "vpn_connections"}

\* device r of site s is the first router in the declared order of the site
FirstRouter(d, s, r) ==
    /\ d.sites[s].devices[r].type = "router"
    /\ \A j \in 1..(r - 1) : d.sites[s].devices[j].type # "router"

\* C7: a VPN connection {to_site: S} of device d whose target resolves has
\* an edge; the source of that edge is d and its target is the first device
\* of type router in the declared device order of site S.
C7_VpnTargetsFirstRouter ==
    (status = "ok" /\ Valid(doc)) =>
        \A c \in VpnConnections(doc) :
            /\ Resolves(doc, c) => EdgesFor(doc, c) # {}
            /\ \A e \in EdgesFor(doc, c) :
                  /\ edges[e].source = DeviceAt(doc, c[1]).id
                  /\ \E s \in 1..Len(doc.sites) :
                        /\ doc.sites[s].id = DeviceAt(doc, c[1])[c[2]][c[3]].to_site
                        /\ \E r \in 1..Len(doc.sites[s].devices) :
                              /\ FirstRouter(doc, s, r)
                              /\ edges[e].target = doc.sites[s].devices[r].id

\* C7 witness: a VPN edge to a site whose first router is not its first
\* device and is followed by another router
C7_Witness ==
    /\ status = "ok" /\ Valid(doc)
    /\ \E c \in VpnConnections(doc) : \E e \in EdgesFor(doc, c) :
          \E s \in 1..Len(doc.sites) : \E r \in 2..Len(doc.sites[s].devices) :
              /\ FirstRouter(doc, s, r)
              /\ edges[e].target = doc.sites[s].devices[r].id
              /\ \E j \in (r + 1)..Len(doc.sites[s].devices) :
                    doc.sites[s].devices[j].type = "router"

-----------------------------------------------------------------------------
(* C8 *)

UnresolvedVpn(d) == {c \in VpnConnections(d) : ~Resolves(d, c)}

\* C8: on a valid topology with vpn_connections entries whose target site
\* does not exist or has no router, nothing is thrown, those entries have no
\* edge, and the edges are exactly one per other connection: each other
\* connection keeps its edge, with its own source, kind, index and target.
C8_UnresolvedVpnDropped ==
    (status # "idle" /\ Valid(doc) /\ UnresolvedVpn(doc) # {}) =>
        /\ status = "ok"
        /\ \A c \in UnresolvedVpn(doc) : EdgesFor(doc, c) = {}
        /\ \A c \in DeclaredConnections(doc) \ UnresolvedVpn(doc) :
              /\ Cardinality(EdgesFor(doc, c)) = 1
              /\ c[2] # "vpn_connections" =>
                    \A e \in EdgesFor(doc, c) :
                        edges[e].target = DeviceAt(doc, c[1])[c[2]][c[3]].to
        /\ Len(edges) = Cardinality(DeclaredConnections(doc) \ UnresolvedVpn(doc))

\* C8 witness: a device whose first vpn_connections entry targets a site
\* without a router and whose second entry resolved to an edge
C8_Witness ==
    /\ status = "ok" /\ Valid(doc)
    /\ \E c \in UnresolvedVpn(doc) :
          /\ c[3] = 1
          /\ \E s \in 1..Len(doc.sites) :
                doc.sites[s].id = DeviceAt(doc, c[1])[c[2]][c[3]].to_site
          /\ <<c[1], c[2], 2>> \in VpnConnections(doc)
          /\ EdgesFor(doc, <<c[1], c[2], 2>>) # {}

-----------------------------------------------------------------------------
(* C9 *)

\* a required structural field is missing: the root sites, a site's id or
\* devices, a device's id or type
MissingRequired(d) == "yamlError" \notin DOMAIN d /\ ~Complete(d)

\* C9 (as claimed): parseNetworkConfig rejects, returning no nodes and no
\* edges, when the document is not well-formed and whenever a required
\* structural field is missing.
C9_MissingFieldRejected ==
    (status # "idle" /\ (doc = MalformedDoc \/ MissingRequired(doc))) =>
        status = "error" /\ nodes = <<>> /\ edges = <<>>

-----------------------------------------------------------------------------
(* Edge routers: SVG paths *)

\* Anchor coordinates are held in units of 1/RouteScale pixel, so that the
\* halves and thirds the routers take of integer pixel values are exact.
RouteScale == 2 * 3
R(n) == n * RouteScale

M(x, y) == <<"M", x, y>>
H(x) == <<"H", x>>
V(y) == <<"V", y>>
L(x, y) == <<"L", x, y>>

RECURSIVE PathPoints(_)
\* the points an SVG path visits: M and L move to (x, y), H keeps y, V keeps x
PathPoints(p) ==
    IF Len(p) = 0 THEN <<>>
    ELSE LET before == PathPoints(SubSeq(p, 1, Len(p) - 1))
             c == p[Len(p)]
             cur == before[Len(before)]
         IN  CASE c[1] = "M" -> before \o <<[x |-> c[2], y |-> c[3]]>>
               [] c[1] = "L" -> before \o <<[x |-> c[2], y |-> c[3]]>>
               [] c[1] = "H" -> before \o <<[x |-> c[2], y |-> cur.y]>>
               [] c[1] = "V" -> before \o <<[x |-> cur.x, y |-> c[2]]>>

RECURSIVE SumCharCodes(_)
\* id.split('').reduce((sum, char) => sum + char.charCodeAt(0), 0)
SumCharCodes(id) ==
    IF Len(id) = 0 THEN 0 ELSE CharCodeAt(Head(id)) + SumCharCodes(Tail(id))

\* mutant of EdgeNumber: only the last character of the id, the connection
\* index, is counted
EdgeNumber_lastChar(id) == CharCodeAt(id[Len(id)]) % 3

\* edgeNumber = idSum % 3
EdgeNumber(id) == SumCharCodes(id) % 3

\* mutant of IfEven: the first alternative whatever the parity
IfEven_first(edgeNumber, a, b) == a

\* edgeNumber % 2 === 0 ? a : b
IfEven(edgeNumber, a, b) == IF edgeNumber % 2 = 0 THEN a ELSE b

\* mutant of OrthogonalConnectionEdge: the general case draws a straight
\* line to the target
OrthogonalConnectionEdge_straight(id, sourceX, sourceY, targetX, targetY) ==
    LET safeHorizontalOffset == MathMax(R(150) \div 2 + R(10), R(30))
        safeVerticalOffset == MathMax(R(70) \div 2 + R(10), R(25))
    IN  IF Abs(sourceY - targetY) < safeVerticalOffset
          THEN <<M(sourceX, sourceY), H(targetX)>>
        ELSE IF Abs(sourceX - targetX) < safeHorizontalOffset
          THEN <<M(sourceX, sourceY), V(targetY)>>
        ELSE <<M(sourceX, sourceY), L(targetX, targetY)>>

\* OrthogonalConnectionEdge: the path of a standard connection
OrthogonalConnectionEdge(id, sourceX, sourceY, targetX, targetY) ==
    LET edgeNumber == EdgeNumber(id)
        goingRight == targetX > sourceX
        safeHorizontalOffset == MathMax(R(150) \div 2 + R(10), R(30))
        safeVerticalOffset == MathMax(R(70) \div 2 + R(10), R(25))
        edgeStaggerOffset == edgeNumber * R(10)
        horizontalOffset == safeHorizontalOffset + edgeStaggerOffset
    IN  IF Abs(sourceY - targetY) < safeVerticalOffset
          THEN <<M(sourceX, sourceY), H(targetX)>>
        ELSE IF Abs(sourceX - targetX) < safeHorizontalOffset
          THEN <<M(sourceX, sourceY), V(targetY)>>
        ELSE LET midX == IF goingRight THEN sourceX + horizontalOffset
                         ELSE sourceX - horizontalOffset
             IN  <<M(sourceX, sourceY), H(midX), V(targetY), H(targetX)>>

\* OrthogonalVpnEdge, the version keyed on the edge id
OrthogonalVpnEdge(id, sourceX, sourceY, targetX, targetY) ==
    LET edgeNumber == EdgeNumber(id)
        safeHorizontalOffset == MathMax(R(150) \div 2 + R(20), R(80))
        safeVerticalOffset == MathMax(R(70) \div 2 + R(20), R(50))
        edgeStaggerOffset == edgeNumber * R(30)
        horizontalOffset == safeHorizontalOffset + edgeStaggerOffset
        verticalOffset == safeVerticalOffset + edgeStaggerOffset
        \* id.toLowerCase().includes('gateway'): the ids are lower case
        isGatewayConnection == Includes(id, <<"g","a","t","e","w","a","y">>)
        direction == IfEven(edgeNumber, 1, 0 - 1)
    IN  IF isGatewayConnection
          THEN LET gatewayVerticalOffset == R(100) + edgeNumber * R(50)
               IN  <<M(sourceX, sourceY), H(sourceX + horizontalOffset),
                     V(sourceY + direction * gatewayVerticalOffset),
                     H(targetX), V(targetY)>>
        ELSE IF Abs(sourceY - targetY) < safeVerticalOffset
          THEN LET detourOffset == ((verticalOffset * 3) \div 2) * direction
               IN  <<M(sourceX, sourceY), H(sourceX + horizontalOffset),
                     V(sourceY + detourOffset), H(targetX - horizontalOffset),
                     V(targetY), H(targetX)>>
        ELSE <<M(sourceX, sourceY), H(sourceX + horizontalOffset),
               V(targetY), H(targetX)>>

\* OrthogonalVpnEdge, the version keyed on the distance
OrthogonalVpnEdgeByDistance(id, sourceX, sourceY, targetX, targetY) ==
    LET horizontalDistance == Abs(targetX - sourceX)
        goingRight == targetX > sourceX
        isLongDistanceToRight == horizontalDistance > R(800) /\ goingRight
        isMediumDistanceToRight ==
            horizontalDistance > R(400) /\ horizontalDistance < R(700) /\ goingRight
    IN  IF isLongDistanceToRight
          THEN <<M(sourceX, sourceY), H(sourceX + R(50)), V(sourceY + R(180)),
                 H(targetX - R(50)), V(targetY), H(targetX)>>
        ELSE IF isMediumDistanceToRight
          THEN <<M(sourceX, sourceY), H(targetX)>>
        ELSE IF Abs(sourceY - targetY) < R(30)
          THEN <<M(sourceX, sourceY), H(targetX)>>
        ELSE IF Abs(sourceX - targetX) < R(30)
          THEN <<M(sourceX, sourceY), V(targetY)>>
        ELSE LET turnX == sourceX + (targetX - sourceX) \div 3
             IN  <<M(sourceX, sourceY), H(turnX), V(targetY), H(targetX)>>

\* the routing shared by OrthogonalTrunkEdge and OrthogonalSanEdge in their
\* cross-site versions, up to the constants and the local case
CrossSitePath(sourceX, sourceY, targetX, targetY, offsetDirection, verticalOffset) ==
    LET midX == sourceX + (targetX - sourceX) \div 2 IN
    IF offsetDirection = 0
      THEN <<M(sourceX, sourceY), H(midX), V(targetY), H(targetX)>>
    ELSE <<M(sourceX, sourceY), V(sourceY + offsetDirection * verticalOffset),
           H(midX), V(targetY), H(targetX)>>

\* OrthogonalTrunkEdge, the version with the cross-site case
OrthogonalTrunkEdge(id, sourceX, sourceY, targetX, targetY) ==
    LET edgeNumber == EdgeNumber(id)
        horizontalDistance == Abs(targetX - sourceX)
        verticalDistance == Abs(targetY - sourceY)
        isCrossSiteConnection == horizontalDistance > R(300)
    IN  IF isCrossSiteConnection
          THEN CrossSitePath(sourceX, sourceY, targetX, targetY,
                  IF edgeNumber = 0 THEN 0 ELSE IF edgeNumber = 1 THEN 1 ELSE 0 - 1,
                  R(20) + edgeNumber * R(40))
        ELSE IF Abs(sourceY - targetY) < R(30)
          THEN <<M(sourceX, sourceY), H(targetX)>>
        ELSE IF Abs(sourceX - targetX) < R(30)
          THEN <<M(sourceX, sourceY), V(targetY)>>
        ELSE LET offsetDirection == IfEven(edgeNumber, 1, 0 - 1)
                 offsetAmount == R(25) + edgeNumber * R(15)
             IN  IF horizontalDistance > verticalDistance
                   THEN <<M(sourceX, sourceY), V(sourceY + offsetDirection * offsetAmount),
                          H(targetX), V(targetY)>>
                 ELSE <<M(sourceX, sourceY), H(sourceX + offsetDirection * offsetAmount),
                        V(targetY), H(targetX)>>

\* OrthogonalTrunkEdge, the version with the vertical detour
OrthogonalTrunkEdgeDetour(id, sourceX, sourceY, targetX, targetY) ==
    LET edgeNumber == EdgeNumber(id)
        horizontalDistance == Abs(targetX - sourceX)
        safeHorizontalOffset == MathMax(R(150) \div 2 + R(15), R(60))
        safeVerticalOffset == MathMax(R(70) \div 2 + R(15), R(40))
        edgeStaggerOffset == edgeNumber * R(25)
        horizontalOffset == safeHorizontalOffset + edgeStaggerOffset
        verticalOffset == safeVerticalOffset + edgeStaggerOffset
    IN  IF Abs(sourceY - targetY) < safeVerticalOffset
          THEN LET detourOffset == verticalOffset * IfEven(edgeNumber, 1, 0 - 1)
               IN  <<M(sourceX, sourceY), H(sourceX + horizontalOffset),
                     V(sourceY + detourOffset), H(targetX - horizontalOffset),
                     V(targetY), H(targetX)>>
        ELSE IF horizontalDistance < safeHorizontalOffset * 2
          THEN LET smallOffset == R(30) + edgeNumber * R(15)
               IN  <<M(sourceX, sourceY), H(sourceX + smallOffset), V(targetY), H(targetX)>>
        ELSE <<M(sourceX, sourceY), H(sourceX + horizontalOffset), V(targetY), H(targetX)>>

\* OrthogonalSanEdge, the version with the cross-site case
OrthogonalSanEdge(id, sourceX, sourceY, targetX, targetY) ==
    LET edgeNumber == EdgeNumber(id)
        horizontalDistance == Abs(targetX - sourceX)
        goingDown == targetY > sourceY
        isCrossSiteConnection == horizontalDistance > R(300)
    IN  IF isCrossSiteConnection
          THEN CrossSitePath(sourceX, sourceY, targetX, targetY,
                  IF edgeNumber = 0 THEN 0 ELSE IF edgeNumber = 1 THEN 0 - 1 ELSE 1,
                  R(40) + edgeNumber * R(50))
        ELSE IF Abs(sourceY - targetY) < R(30)
          THEN <<M(sourceX, sourceY), H(targetX)>>
        ELSE IF Abs(sourceX - targetX) < R(30)
          THEN <<M(sourceX, sourceY), V(targetY)>>
        ELSE LET offsetDirection == IfEven(edgeNumber, 1, 0 - 1)
                 offsetAmount == R(35) + edgeNumber * R(20)
             IN  IF goingDown
                   THEN <<M(sourceX, sourceY), H(sourceX + offsetDirection * offsetAmount),
                          V(targetY), H(targetX)>>
                 ELSE <<M(sourceX, sourceY), V(sourceY + offsetDirection * offsetAmount),
                        H(targetX), V(targetY)>>

\* OrthogonalSanEdge, the version with the vertical detour
OrthogonalSanEdgeDetour(id, sourceX, sourceY, targetX, targetY) ==
    LET edgeNumber == EdgeNumber(id)
        safeHorizontalOffset == MathMax(R(150) \div 2 + R(15), R(70))
        safeVerticalOffset == MathMax(R(70) \div 2 + R(15), R(45))
        edgeStaggerOffset == edgeNumber * R(30)
        horizontalOffset == safeHorizontalOffset + edgeStaggerOffset
    IN  IF Abs(sourceY - targetY) < safeVerticalOffset
          THEN LET direction == IfEven(edgeNumber, 0 - 1, 1)
                   detourOffset == (safeVerticalOffset + edgeStaggerOffset) * direction
               IN  <<M(sourceX, sourceY), H(sourceX + horizontalOffset),
                     V(sourceY + detourOffset), H(targetX - horizontalOffset),
                     V(targetY), H(targetX)>>
        ELSE <<M(sourceX, sourceY), H(sourceX + horizontalOffset), V(targetY), H(targetX)>>

-----------------------------------------------------------------------------
(* Rendering an edge: the props React Flow hands to the edge component *)

gatewayId == <<"g","a","t","e","w","a","y">>
sourceDeviceId == <<"a","1">>
targetDeviceId == <<"b","2">>

\* the ids parseNetworkConfig gives the edges of one kind
RouteIds(prefix) ==
    {EdgeId(prefix, s, targetDeviceId, i) :
        s \in {sourceDeviceId, gatewayId}, i \in 0..MaxEdgeIndex}

PrefixOf(edgeType) ==
    CASE edgeType = "connectionEdge" -> connectionPrefix
      [] edgeType = "vpnEdge" -> vpnPrefix
      [] edgeType = "trunkEdge" -> trunkPrefix
      [] edgeType = "sanEdge" -> sanPrefix

EdgeTypes == {"connectionEdge", "vpnEdge", "trunkEdge", "sanEdge"}

\* anchor coordinates, in pixels
SourceXs == {0, 500}
TargetXs == {0, 20, 200, 500, 650, 1400}
SourceYs == {0, 100}
TargetYs == {0, 20, 100, 152, 400}

EdgeProps ==
    UNION {[id : RouteIds(PrefixOf(t)), type : {t},
            sourceX : {R(x) : x \in SourceXs}, sourceY : {R(y) : y \in SourceYs},
            targetX : {R(x) : x \in TargetXs}, targetY : {R(y) : y \in TargetYs}]
           : t \in EdgeTypes}

InitRoute ==
    /\ doc = [sites |-> <<>>]
    /\ status = "idle"
    /\ nodes = <<>>
    /\ edges = <<>>
    /\ props \in EdgeProps
    /\ routed = "none"
    /\ path = <<>>
    /\ MapIdle /\ AdminIdle /\ DragIdle

\* one render of an edge of the given type by the given component, whose
\* useMemo computes edgePath from the props
Render(edgeType, component, edgePath) ==
    /\ routed = "none"
    /\ props.type = edgeType
    /\ routed' = component
    /\ path' = edgePath
    /\ UNCHANGED <<parseVars, props, mapVars, adminVars, dragVars>>

RenderConnectionEdge ==
    Render("connectionEdge", "OrthogonalConnectionEdge",
           OrthogonalConnectionEdge(props.id, props.sourceX, props.sourceY,
                                    props.targetX, props.targetY))
RenderVpnEdge ==
    Render("vpnEdge", "OrthogonalVpnEdge",
           OrthogonalVpnEdge(props.id, props.sourceX, props.sourceY,
                             props.targetX, props.targetY))
RenderVpnEdgeByDistance ==
    Render("vpnEdge", "OrthogonalVpnEdgeByDistance",
           OrthogonalVpnEdgeByDistance(props.id, props.sourceX, props.sourceY,
                                       props.targetX, props.targetY))
RenderTrunkEdge ==
    Render("trunkEdge", "OrthogonalTrunkEdge",
           OrthogonalTrunkEdge(props.id, props.sourceX, props.sourceY,
                               props.targetX, props.targetY))
RenderTrunkEdgeDetour ==
    Render("trunkEdge", "OrthogonalTrunkEdgeDetour",
           OrthogonalTrunkEdgeDetour(props.id, props.sourceX, props.sourceY,
                                     props.targetX, props.targetY))
RenderSanEdge ==
    Render("sanEdge", "OrthogonalSanEdge",
           OrthogonalSanEdge(props.id, props.sourceX, props.sourceY,
                             props.targetX, props.targetY))
RenderSanEdgeDetour ==
    Render("sanEdge", "OrthogonalSanEdgeDetour",
           OrthogonalSanEdgeDetour(props.id, props.sourceX, props.sourceY,
                                   props.targetX, props.targetY))

NextRoute ==
    \/ RenderConnectionEdge
    \/ RenderVpnEdge
    \/ RenderVpnEdgeByDistance
    \/ RenderTrunkEdge
    \/ RenderTrunkEdgeDetour
    \/ RenderSanEdge
    \/ RenderSanEdgeDetour

SpecRoute == InitRoute /\ [][NextRoute]_vars

-----------------------------------------------------------------------------
(* Claims about the routed paths *)

Rendered == routed # "none"

\* the segments of the rendered path: pairs of consecutive points
Segments ==
    LET pts == PathPoints(path)
    IN  {<<pts[i], pts[i + 1]>> : i \in 1..(Len(pts) - 1)}

MovesOnX(seg) == seg[1].x # seg[2].x
MovesOnY(seg) == seg[1].y # seg[2].y

\* C4 as stated: every pair of consecutive points of a routed path differs
\* in exactly one of x or y: no diagonal segment and no zero-length segment.
C4_ExactlyOneAxis ==
    Rendered => \A seg \in Segments : MovesOnX(seg) # MovesOnY(seg)

\* C4 amended: every pair of consecutive points of a routed path differs in at
\* most one of x or y: no segment is diagonal, for every router, every anchor
\* position and every stagger index (a segment may have length zero).
C4_NoDiagonalSegment ==
    Rendered => \A seg \in Segments : ~(MovesOnX(seg) /\ MovesOnY(seg))

\* a standard connection routed around a bend: a path that moves on x, then
\* on y, then on x again
C4_Witness ==
    /\ routed = "OrthogonalConnectionEdge"
    /\ Len(path) = 4
    /\ \E seg \in Segments : MovesOnX(seg) /\ ~MovesOnY(seg)
    /\ \E seg \in Segments : MovesOnY(seg) /\ ~MovesOnX(seg)

-----------------------------------------------------------------------------
(* C11 *)

\* the path the component that rendered the current edge computes for the
\* props of another edge
PathOf(component, id, sourceX, sourceY, targetX, targetY) ==
    CASE component = "OrthogonalConnectionEdge" ->
           OrthogonalConnectionEdge(id, sourceX, sourceY, targetX, targetY)
      [] component = "OrthogonalVpnEdge" ->
           OrthogonalVpnEdge(id, sourceX, sourceY, targetX, targetY)
      [] component = "OrthogonalVpnEdgeByDistance" ->
           OrthogonalVpnEdgeByDistance(id, sourceX, sourceY, targetX, targetY)
      [] component = "OrthogonalTrunkEdge" ->
           OrthogonalTrunkEdge(id, sourceX, sourceY, targetX, targetY)
      [] component = "OrthogonalTrunkEdgeDetour" ->
           OrthogonalTrunkEdgeDetour(id, sourceX, sourceY, targetX, targetY)
      [] component = "OrthogonalSanEdge" ->
           OrthogonalSanEdge(id, sourceX, sourceY, targetX, targetY)
      [] component = "OrthogonalSanEdgeDetour" ->
           OrthogonalSanEdgeDetour(id, sourceX, sourceY, targetX, targetY)

\* the ids of the parallel edges of an edge: the same kind, source and target,
\* with the other indices parseNetworkConfig hands out
ParallelIds(id) ==
    {SubSeq(id, 1, Len(id) - 1) \o NumberToString(i) : i \in 0..MaxEdgeIndex} \ {id}

TrunkComponents == {"OrthogonalTrunkEdge", "OrthogonalTrunkEdgeDetour"}

\* C11 (as claimed): a trunk edge and a parallel trunk edge (same anchors)
\* with another stagger index are routed on different paths, for every
\* relative position of the anchors and in both versions of the trunk router.
C11_ParallelTrunksDistinct ==
    routed \in TrunkComponents =>
        \A other \in ParallelIds(props.id) :
            EdgeNumber(other) # EdgeNumber(props.id) =>
                PathOf(routed, other, props.sourceX, props.sourceY,
                       props.targetX, props.targetY) # path

-----------------------------------------------------------------------------
(* C12 *)

\* rectangle a lies inside rectangle b with a margin on every side
Inside(a, b) ==
    /\ b.x < a.x /\ a.x + a.width < b.x + b.width
    /\ b.y < a.y /\ a.y + a.height < b.y + b.height

\* C12 (as claimed): every device rectangle of a site lies inside the
\* background box of that site, with a margin on the left, right, top and
\* bottom, for any number of devices per type group.
C12_DevicesInsideSiteBox ==
    (status = "ok" /\ Valid(doc)) =>
        \A n \in DeviceNodes : \A b \in BackgroundNodes :
            nodes[n].siteId = nodes[b].siteId => Inside(nodes[n], nodes[b])

-----------------------------------------------------------------------------
(* C13 *)

\* C13 (as claimed): the background box of every site has a numeric size of
\* at least the minimum, width >= 800 and layout height >= 400 (the box is
\* drawn 100 higher than the layout height), whatever the device count of
\* the site, one and zero included.
C13_SiteBoxAtLeastMinimum ==
    (status = "ok" /\ Valid(doc)) =>
        \A b \in BackgroundNodes :
            /\ nodes[b].width # NaN /\ nodes[b].height # NaN
            /\ nodes[b].width >= Px(800)
            /\ nodes[b].height - Px(100) >= Px(400)

-----------------------------------------------------------------------------
(* C14 *)

\* the declared type of the device a networkNode was pushed for
TypeOfNode(d, n) ==
    LET si == CHOOSE si \in DeclaredDevices(d) : DeviceAt(d, si).id = nodes[n].id
    IN  DeviceAt(d, si).type

\* C14: within a site of a valid topology the type groups are stacked in the
\* order router, firewall, vpn, switch, server, hypervisor, storage: a placed
\* device of a group earlier in that order has a y strictly smaller than
\* every placed device of a later group, whatever the declared order.
C14_GroupsStackedInPriorityOrder ==
    (status = "ok" /\ Valid(doc)) =>
        \A m, n \in DeviceNodes :
            (/\ nodes[m].siteId = nodes[n].siteId
             /\ OrderOf(TypeOfNode(doc, m)) < OrderOf(TypeOfNode(doc, n)))
                => nodes[m].y < nodes[n].y

\* C14 witness: a parsed site that declares a storage device before its
\* routers, the routers wrapping into a second row; the storage device is
\* placed below the second router row
C14_Witness ==
    /\ status = "ok" /\ Valid(doc)
    /\ \E si, sj, sk \in DeclaredDevices(doc) :
          /\ si[1] = sj[1] /\ sj[1] = sk[1] /\ si[2] < sj[2]
          /\ DeviceAt(doc, si).type = "storage"
          /\ DeviceAt(doc, sj).type = "router" /\ DeviceAt(doc, sk).type = "router"
          /\ \E m \in PlacementsOf(doc, si) : \E n \in PlacementsOf(doc, sj) :
                \E o \in PlacementsOf(doc, sk) :
                    nodes[n].y < nodes[o].y /\ nodes[o].y < nodes[m].y

-----------------------------------------------------------------------------
(* C15 *)

\* the sum of the character codes of an id, modulo 3
CodeSumMod3(id) ==
    LET S[i \in 0..Len(id)] == IF i = 0 THEN 0 ELSE S[i - 1] + CharCodeAt(id[i])
    IN  S[Len(id)] % 3

IsGatewayId(id) == Includes(id, gatewayId)

\* the components every branch of which uses the stagger index
AlwaysStaggered == {"OrthogonalVpnEdge", "OrthogonalTrunkEdgeDetour", "OrthogonalSanEdgeDetour"}

\* C15: the stagger index of an edge is the sum of the character codes of its
\* id modulo 3, a value in 0..2, and nothing else of the id matters: in every
\* router an edge of the same kind between the same anchors whose id has the
\* same sum modulo 3 gets the same path, and in the routers that stagger in
\* every branch an id with another sum modulo 3 gets another path.
C15_StaggerIsCodeSumMod3 ==
    Rendered =>
        /\ EdgeNumber(props.id) \in 0..2
        /\ EdgeNumber(props.id) = CodeSumMod3(props.id)
        /\ \A other \in RouteIds(PrefixOf(props.type)) :
              LET otherPath == PathOf(routed, other, props.sourceX, props.sourceY,
                                      props.targetX, props.targetY)
              IN  /\ (/\ CodeSumMod3(other) = CodeSumMod3(props.id)
                      /\ IsGatewayId(other) = IsGatewayId(props.id) \/ routed # "OrthogonalVpnEdge")
                        => otherPath = path
                  /\ (/\ routed \in AlwaysStaggered
                      /\ CodeSumMod3(other) # CodeSumMod3(props.id))
                        => otherPath # path

\* C15 witness: a trunk edge rendered with its stagger offset while another
\* trunk id, with another connection index, has the same sum modulo 3
C15_Witness ==
    /\ routed = "OrthogonalTrunkEdgeDetour"
    /\ CodeSumMod3(props.id) = 2
    /\ path[2] = H(props.sourceX + R(90) + 2 * R(25))
    /\ \E other \in RouteIds(trunkPrefix) :
          /\ other[Len(other)] # props.id[Len(props.id)]
          /\ CodeSumMod3(other) = 2

-----------------------------------------------------------------------------
(* NetworkMap: the diagram component *)

\* the documents NetworkMap is given: one site with two connected devices,
\* one site with two devices and a trunk, a blank text, a text that is not
\* YAML and a document without sites
MapDocA ==
    [sites |-> <<[id |-> mainId,
                  devices |-> <<[id |-> <<"a","1">>, type |-> "router",
                                 connections |-> <<[to |-> <<"a","2">>]>>],
                                [id |-> <<"a","2">>, type |-> "switch"]>>]>>]
MapDocB ==
    [sites |-> <<[id |-> branchId,
                  devices |-> <<[id |-> <<"b","1">>, type |-> "switch",
                                 trunk_connections |-> <<[to |-> <<"b","2">>]>>],
                                [id |-> <<"b","2">>, type |-> "router"]>>]>>]
MapTexts == {BlankText, MalformedDoc, [name |-> mainId], MapDocA, MapDocB}

\* !yamlContent.trim()
IsBlank(text) == text = BlankText

NoConfigurationMessage == [message |-> "No network configuration provided"]
FailedToParseMessage == [message |-> "Failed to parse network configuration"]

\* { ...obj, [field]: value }
With(obj, field, value) ==
    [f \in DOMAIN obj \cup {field} |-> IF f = field THEN value ELSE obj[f]]

\* seq.filter((_, index) => index !== i)
Without(seq, i) == SubSeq(seq, 1, i - 1) \o SubSeq(seq, i + 1, Len(seq))

\* where a dragged node is dropped
DropPosition == [x |-> Px(40), y |-> Px(40)]

IsSelected(element) == "selected" \in DOMAIN element /\ element.selected

\* what the history variable keeps of a state
Summary ==
    [error |-> error # Null,
     selected |-> \E i \in 1..Len(rfNodes) : IsSelected(rfNodes[i]),
     dragged |-> \E i \in 1..Len(rfNodes) :
                    rfNodes[i].x = DropPosition.x /\ rfNodes[i].y = DropPosition.y,
     waypoints |-> \E i \in 1..Len(rfEdges) : "waypoints" \in DOMAIN rfEdges[i],
     nodes |-> Len(rfNodes),
     edges |-> Len(rfEdges)]

\* the component is mounted with its props; the effect has called
\* setupNetwork, which waits for parseNetworkConfig
InitMap ==
    /\ doc = [sites |-> <<>>] /\ status = "idle" /\ nodes = <<>> /\ edges = <<>>
    /\ RouteIdle /\ AdminIdle /\ DragIdle
    /\ yamlContent \in MapTexts
    /\ isAdmin \in BOOLEAN
    /\ loading = yamlContent
    /\ rfNodes = <<>> /\ rfEdges = <<>>
    /\ isLoading = TRUE /\ error = Null
    /\ atBegin = Summary

\* the diagram is on screen
Displayed == loading = Null /\ ~isLoading /\ error = Null

\* SetupNetworkBegin without its setError(null)
SetupNetworkBegin_keepError ==
    /\ isAdmin /\ loading = Null
    /\ \E text \in MapTexts \ {yamlContent} :
          /\ yamlContent' = text
          /\ loading' = text
    /\ isLoading' = TRUE
    /\ atBegin' = Summary
    /\ UNCHANGED <<isAdmin, rfNodes, rfEdges, error, parseVars, routeVars, adminVars, dragVars>>

\* the parent (AdminPage) passes another yamlContent: the effect runs
\* setupNetwork up to its await.  parseNetworkConfig awaits nothing, so the
\* rest of a run is a microtask queued when the run begins: it runs before
\* the next render can start another run, and no two runs are in progress
SetupNetworkBegin ==
    /\ isAdmin /\ loading = Null
    /\ \E text \in MapTexts \ {yamlContent} :
          /\ yamlContent' = text
          /\ loading' = text
    /\ isLoading' = TRUE
    /\ error' = Null
    /\ atBegin' = Summary
    /\ UNCHANGED <<isAdmin, rfNodes, rfEdges, parseVars, routeVars, adminVars, dragVars>>

\* SetupNetworkEnd without setNodes([]) and setEdges([]) for a blank text
SetupNetworkEnd_keepOnBlank ==
    /\ loading # Null
    /\ IF IsBlank(loading)
         THEN /\ UNCHANGED <<rfNodes, rfEdges>>
              /\ error' = NoConfigurationMessage
         ELSE LET r == ParseResult(loading) IN
              IF r.status = "ok"
                THEN /\ rfNodes' = r.nodes
                     /\ rfEdges' = r.edges
                     /\ error' = error
              ELSE /\ error' = FailedToParseMessage
                   /\ UNCHANGED <<rfNodes, rfEdges>>
    /\ isLoading' = FALSE
    /\ loading' = Null
    /\ UNCHANGED <<yamlContent, isAdmin, atBegin, parseVars, routeVars, adminVars, dragVars>>

\* SetupNetworkEnd adding the parsed edges to the edges already there
SetupNetworkEnd_appendEdges ==
    /\ loading # Null
    /\ IF IsBlank(loading)
         THEN /\ rfNodes' = <<>>
              /\ rfEdges' = <<>>
              /\ error' = NoConfigurationMessage
         ELSE LET r == ParseResult(loading) IN
              IF r.status = "ok"
                THEN /\ rfNodes' = r.nodes
                     /\ rfEdges' = rfEdges \o r.edges
                     /\ error' = error
              ELSE /\ error' = FailedToParseMessage
                   /\ UNCHANGED <<rfNodes, rfEdges>>
    /\ isLoading' = FALSE
    /\ loading' = Null
    /\ UNCHANGED <<yamlContent, isAdmin, atBegin, parseVars, routeVars, adminVars, dragVars>>

\* setupNetwork from its await to its end
SetupNetworkEnd ==
    /\ loading # Null
    /\ IF IsBlank(loading)
         THEN /\ rfNodes' = <<>>
              /\ rfEdges' = <<>>
              /\ error' = NoConfigurationMessage
         ELSE LET r == ParseResult(loading) IN
              IF r.status = "ok"
                THEN /\ rfNodes' = r.nodes
                     /\ rfEdges' = r.edges
                     /\ error' = error
              ELSE /\ error' = FailedToParseMessage
                   /\ UNCHANGED <<rfNodes, rfEdges>>
    /\ isLoading' = FALSE
    /\ loading' = Null
    /\ UNCHANGED <<yamlContent, isAdmin, atBegin, parseVars, routeVars, adminVars, dragVars>>

\* mutant of SelectOnly: the nodes selected before stay selected
SelectOnly_keepOthers(nds, id) ==
    [i \in 1..Len(nds) |->
        With(nds[i], "selected", nds[i].id = id \/ IsSelected(nds[i]))]

\* nds.map((n) => ({ ...n, data: { ...n.data, selected: n.id === id } }))
SelectOnly(nds, id) ==
    [i \in 1..Len(nds) |-> With(nds[i], "selected", nds[i].id = id)]

\* a selecting handler has run for node n
Selects(n) ==
    /\ Displayed
    /\ rfNodes' = SelectOnly(rfNodes, rfNodes[n].id)
    /\ UNCHANGED <<yamlContent, isAdmin, loading, rfEdges, isLoading, error, atBegin,
                   parseVars, routeVars, adminVars, dragVars>>

\* onNodeClick: the clicked node is marked selected, every other node is not
OnNodeClick == \E n \in 1..Len(rfNodes) : Selects(n)

\* onNodeClick of the NetworkMap with the toolbar: a click on a node that is
\* not a networkNode is ignored
OnNetworkNodeClick ==
    \E n \in 1..Len(rfNodes) : rfNodes[n].type = "networkNode" /\ Selects(n)

\* focusNode(nodeId), called with the id of a search result of the toolbar
\* (a networkNode): the node is selected and the view is centred on it
FocusNode ==
    \E n \in 1..Len(rfNodes) : rfNodes[n].type = "networkNode" /\ Selects(n)

\* onNodesChange, passed to ReactFlow only for an admin: a draggable node is
\* dropped at another position
OnNodesChangePosition ==
    /\ Displayed /\ isAdmin
    /\ \E n \in 1..Len(rfNodes) :
          /\ rfNodes[n].type = "networkNode"
          /\ rfNodes' = [rfNodes EXCEPT ![n] =
                           With(With(rfNodes[n], "x", DropPosition.x), "y", DropPosition.y)]
    /\ UNCHANGED <<yamlContent, isAdmin, loading, rfEdges, isLoading, error, atBegin,
                   parseVars, routeVars, adminVars, dragVars>>

\* onEdgesChange, passed to ReactFlow in every view: an edge is selected
OnEdgesChangeSelect ==
    /\ Displayed
    /\ \E e \in 1..Len(rfEdges) :
          rfEdges' = [i \in 1..Len(rfEdges) |-> With(rfEdges[i], "selected", i = e)]
    /\ UNCHANGED <<yamlContent, isAdmin, loading, rfNodes, isLoading, error, atBegin,
                   parseVars, routeVars, adminVars, dragVars>>

\* onEdgesChange: the selected edge is removed (delete key)
OnEdgesChangeRemove ==
    /\ Displayed
    /\ \E e \in 1..Len(rfEdges) :
          /\ IsSelected(rfEdges[e])
          /\ rfEdges' = Without(rfEdges, e)
    /\ UNCHANGED <<yamlContent, isAdmin, loading, rfNodes, isLoading, error, atBegin,
                   parseVars, routeVars, adminVars, dragVars>>

\* DraggableEdge.onEdgeMouseDown: a waypoint is added to the edge's data
\* (the edge components built on DraggableEdge do not look at isAdmin)
OnEdgeMouseDown ==
    /\ Displayed
    /\ \E e \in 1..Len(rfEdges) :
          /\ "waypoints" \notin DOMAIN rfEdges[e]
          /\ rfEdges' = [rfEdges EXCEPT ![e] = With(rfEdges[e], "waypoints", <<DropPosition>>)]
    /\ UNCHANGED <<yamlContent, isAdmin, loading, rfNodes, isLoading, error, atBegin,
                   parseVars, routeVars, adminVars, dragVars>>

NextMap ==
    \/ SetupNetworkBegin
    \/ SetupNetworkEnd
    \/ OnNodeClick
    \/ OnNetworkNodeClick
    \/ FocusNode
    \/ OnNodesChangePosition
    \/ OnEdgesChangeSelect
    \/ OnEdgesChangeRemove
    \/ OnEdgeMouseDown

SpecMap == InitMap /\ [][NextMap]_vars

\* a load that ends with a parsed document
LoadSucceeds ==
    /\ loading # Null /\ loading' = Null
    /\ ~IsBlank(loading) /\ ParseResult(loading).status = "ok"

\* C16: every successful load leaves exactly the nodes and edges that
\* parseNetworkConfig returns for the document, whatever was dragged,
\* selected, given waypoints or removed before
C16_LoadReplacesDiagram ==
    [][LoadSucceeds => /\ rfNodes' = ParseResult(loading).nodes
                       /\ rfEdges' = ParseResult(loading).edges]_vars

\* C16 witness: a document is on screen as parsed, loaded over a diagram
\* that had a selected node, a dragged node and an edge with a waypoint
C16_Witness ==
    /\ Displayed
    /\ atBegin.selected /\ atBegin.dragged /\ atBegin.waypoints
    /\ ParseResult(yamlContent).status = "ok"
    /\ rfNodes = ParseResult(yamlContent).nodes
    /\ rfEdges = ParseResult(yamlContent).edges
    /\ Len(rfEdges) > 0

\* C17: when no load is running, isLoading is false and the error is set
\* exactly when the last document was blank or failed to parse; so a
\* successful load after a failed one shows the diagram again
C17_ErrorIffLoadFailed ==
    loading = Null =>
        /\ ~isLoading
        /\ error # Null <=> (IsBlank(yamlContent) \/ ParseResult(yamlContent).status = "error")

\* C17 witness: a diagram is displayed by a load that began while an error
\* was shown
C17_Witness ==
    /\ Displayed /\ atBegin.error
    /\ Len(rfNodes) > 0

\* an element without its display flag
Unselected(element) == [f \in DOMAIN element \ {"selected"} |-> element[f]]

\* C18: in the public view the displayed nodes and edges are, apart from
\* the selected flag, those of the load
C18_PublicViewReadOnly ==
    (~isAdmin /\ Displayed) =>
        LET parsed == ParseResult(yamlContent) IN
        /\ Len(rfNodes) = Len(parsed.nodes)
        /\ \A i \in 1..Len(rfNodes) : Unselected(rfNodes[i]) = parsed.nodes[i]
        /\ Len(rfEdges) = Len(parsed.edges)
        /\ \A i \in 1..Len(rfEdges) : Unselected(rfEdges[i]) = parsed.edges[i]

-----------------------------------------------------------------------------
(* AdminPage and the client-side authentication *)

ADMIN_USERNAME == "admin"
ADMIN_PASSWORD == "network-admin"
\* what login stores under AUTH_TOKEN_KEY
AuthenticatedToken == [token |-> "authenticated"]

Usernames == {ADMIN_USERNAME, "guest"}
Passwords == {ADMIN_PASSWORD, "password"}

\* isAuthenticated(): !!sessionStorage.getItem(AUTH_TOKEN_KEY)
IsAuthenticated == authToken # Null

\* the content of /sample-network.yaml
SampleText == MapDocA

\* the pages of the application
Routes == {"/", "/admin"}

\* the browser shows the public page; nobody has logged in
InitAdmin ==
    /\ doc = [sites |-> <<>>] /\ status = "idle" /\ nodes = <<>> /\ edges = <<>>
    /\ RouteIdle /\ MapIdle /\ AdminIdle /\ DragIdle

\* the browser opens a page.  Opening /admin mounts AdminPage: its state is
\* initialised and the effect starts loadSampleNetwork; leaving it unmounts
Navigate ==
    /\ \E r \in Routes \ {route} :
          /\ route' = r
          /\ sampleFetch' = IF r = "/admin" THEN "pending" ELSE "none"
    /\ editorText' = BlankText
    /\ activeYamlContent' = BlankText
    /\ isSaved' = TRUE
    /\ edited' = FALSE
    /\ UNCHANGED <<authToken, parseVars, routeVars, mapVars, dragVars>>

\* LoadSampleNetwork without its setActiveYamlContent(content)
LoadSampleNetwork_editorOnly ==
    /\ route = "/admin" /\ sampleFetch = "pending"
    /\ \E ok \in BOOLEAN :
          IF ok THEN /\ editorText' = SampleText
                     /\ UNCHANGED activeYamlContent
                ELSE UNCHANGED <<editorText, activeYamlContent>>
    /\ sampleFetch' = "done"
    /\ UNCHANGED <<route, authToken, isSaved, edited, parseVars, routeVars, mapVars, dragVars>>

\* loadSampleNetwork after its awaits: the response is ok or it is not
LoadSampleNetwork ==
    /\ route = "/admin" /\ sampleFetch = "pending"
    /\ \E ok \in BOOLEAN :
          IF ok THEN /\ editorText' = SampleText
                     /\ activeYamlContent' = SampleText
                ELSE UNCHANGED <<editorText, activeYamlContent>>
    /\ sampleFetch' = "done"
    /\ UNCHANGED <<route, authToken, isSaved, edited, parseVars, routeVars, mapVars, dragVars>>

\* HandleEditorChange also updating the preview
HandleEditorChange_live ==
    /\ route = "/admin"
    /\ \E newContent \in MapTexts \ {editorText} :
          /\ editorText' = newContent
          /\ activeYamlContent' = newContent
    /\ isSaved' = FALSE
    /\ edited' = TRUE
    /\ UNCHANGED <<route, authToken, sampleFetch, parseVars, routeVars, mapVars, dragVars>>

\* handleEditorChange(newContent), the onChange of the YamlEditor textarea
HandleEditorChange ==
    /\ route = "/admin"
    /\ \E newContent \in MapTexts \ {editorText} :
          editorText' = newContent
    /\ isSaved' = FALSE
    /\ edited' = TRUE
    /\ UNCHANGED <<route, authToken, activeYamlContent, sampleFetch,
                   parseVars, routeVars, mapVars, dragVars>>

\* handleApplyChanges, the onApply of the YamlEditor button
HandleApplyChanges ==
    /\ route = "/admin"
    /\ activeYamlContent' = editorText
    /\ isSaved' = TRUE
    /\ UNCHANGED <<route, authToken, editorText, sampleFetch, edited,
                   parseVars, routeVars, mapVars, dragVars>>

\* login(username, password)
Login ==
    /\ \E username \in Usernames, password \in Passwords :
          authToken' = IF username = ADMIN_USERNAME /\ password = ADMIN_PASSWORD
                         THEN AuthenticatedToken
                         ELSE authToken
    /\ UNCHANGED <<route, editorText, activeYamlContent, isSaved, sampleFetch, edited,
                   parseVars, routeVars, mapVars, dragVars>>

\* logout()
Logout ==
    /\ authToken' = Null
    /\ UNCHANGED <<route, editorText, activeYamlContent, isSaved, sampleFetch, edited,
                   parseVars, routeVars, mapVars, dragVars>>

NextAdmin ==
    \/ Navigate
    \/ LoadSampleNetwork
    \/ HandleEditorChange
    \/ HandleApplyChanges
    \/ Login
    \/ Logout

SpecAdmin == InitAdmin /\ [][NextAdmin]_vars

\* AdminPage stays mounted over the step
StaysOnAdminPage == route = "/admin" /\ route' = "/admin"

\* C19 as stated: while the admin page is open, the active YAML changes
\* only by handleApplyChanges
C19_PreviewChangesOnlyOnApply ==
    [][(StaysOnAdminPage /\ activeYamlContent' # activeYamlContent)
          => HandleApplyChanges]_vars

\* C19: while the admin page is open, handleEditorChange leaves the active
\* YAML as it is, handleApplyChanges makes it the editor text of that
\* moment, and it changes only by handleApplyChanges or when the sample
\* document fetched on mount arrives
C19_PreviewFollowsApplyOrSampleLoad ==
    [][StaysOnAdminPage =>
          /\ HandleEditorChange => activeYamlContent' = activeYamlContent
          /\ HandleApplyChanges => activeYamlContent' = editorText
          /\ activeYamlContent' # activeYamlContent
                => HandleApplyChanges \/ LoadSampleNetwork]_vars

\* C19 witness: an edited text was applied and the editor was edited again:
\* the preview shows a text that is neither the sample nor the editor text
C19_Witness ==
    /\ route = "/admin" /\ sampleFetch = "done"
    /\ ~isSaved
    /\ activeYamlContent \notin {BlankText, SampleText, editorText}

\* C20: the admin page is shown only to an authenticated user
C20_AdminPageOnlyWhenAuthenticated ==
    route = "/admin" => IsAuthenticated

\* C27: once handleEditorChange has been called, the editor text changes
\* only by handleEditorChange
C27_TypedTextChangesOnlyByEdits ==
    [][(StaysOnAdminPage /\ edited /\ editorText' # editorText)
          => HandleEditorChange]_vars

\* C29: whenever isSaved is true the editor text is the active YAML
C29_SavedMeansEditorIsActive ==
    (route = "/admin" /\ isSaved) => editorText = activeYamlContent

\* C29 witness: an edited text, not the sample, was applied after the sample
\* had arrived, and the indicator is off
C29_Witness ==
    /\ route = "/admin" /\ sampleFetch = "done" /\ edited
    /\ isSaved
    /\ editorText = activeYamlContent
    /\ activeYamlContent \notin {BlankText, SampleText}

-----------------------------------------------------------------------------
(* C22, C24: the shape of the routed paths *)

\* the bound on |sourceY - targetY| under which a router takes its
\* near-equal-y case
NearYTolerance(component) ==
    CASE component = "OrthogonalVpnEdge" -> MathMax(R(70) \div 2 + R(20), R(50))
      [] component = "OrthogonalVpnEdgeByDistance" -> R(30)
      [] component = "OrthogonalTrunkEdge" -> R(30)
      [] component = "OrthogonalTrunkEdgeDetour" -> MathMax(R(70) \div 2 + R(15), R(40))
      [] component = "OrthogonalSanEdge" -> R(30)
      [] component = "OrthogonalSanEdgeDetour" -> MathMax(R(70) \div 2 + R(15), R(45))
      [] OTHER -> 0

NearEqualY == Abs(props.sourceY - props.targetY) < NearYTolerance(routed)

\* a horizontal run, a vertical run, a horizontal run
HasDetourShape(p) ==
    /\ Len(p) >= 4
    /\ p[1] = M(props.sourceX, props.sourceY)
    /\ p[2][1] = "H" /\ p[3][1] = "V" /\ p[4][1] = "H"

\* an id of the rendered edge's kind with stagger index n
IdWithStagger(n) ==
    CHOOSE other \in RouteIds(PrefixOf(props.type)) :
        CodeSumMod3(other) = n /\ IsGatewayId(other) = IsGatewayId(props.id)

\* the path the rendering component gives an edge with stagger index n
\* between the anchors of the rendered edge
StaggeredPath(n) ==
    PathOf(routed, IdWithStagger(n), props.sourceX, props.sourceY,
           props.targetX, props.targetY)

\* how far, and to which side, its vertical run leaves the source's y
Detour(n) == StaggeredPath(n)[3][2] - props.sourceY

\* between near-equal-y anchors the path is a horizontal run, a vertical
\* detour of base + index * step alternating with the parity of the index,
\* and a horizontal run
DetourRule ==
    /\ HasDetourShape(path)
    /\ path = StaggeredPath(CodeSumMod3(props.id))
    /\ \A n \in 0..2 : HasDetourShape(StaggeredPath(n))
    /\ Abs(Detour(0)) > 0
    /\ Abs(Detour(1)) - Abs(Detour(0)) > 0
    /\ Abs(Detour(2)) - Abs(Detour(1)) = Abs(Detour(1)) - Abs(Detour(0))
    /\ Detour(0) * Detour(1) < 0
    /\ Detour(1) * Detour(2) < 0

C24_PathConnectsAnchors ==
    Rendered =>
        LET pts == PathPoints(path) IN
        /\ pts[1] = [x |-> props.sourceX, y |-> props.sourceY]
        /\ pts[Len(pts)] = [x |-> props.targetX, y |-> props.targetY]

-----------------------------------------------------------------------------
(* C25 *)

\* C25: for a topology with unique device ids, the ids of the edges that
\* parseNetworkConfig returns are pairwise distinct
C25_EdgeIdsDistinct ==
    (status = "ok" /\ Valid(doc)) =>
        \A i, j \in 1..Len(edges) : i # j => edges[i].id # edges[j].id

-----------------------------------------------------------------------------
(* C30: the site list of the toolbar *)

\* String.prototype.endsWith
EndsWith(s, suffix) ==
    /\ Len(s) >= Len(suffix)
    /\ SubSeq(s, Len(s) - Len(suffix) + 1, Len(s)) = suffix

\* NetworkToolbar's sites: the keys of siteMap, which gets an entry
\* siteId -> label for every node that has a data.siteId and whose id
\* starts with 'site-' and ends with '-header'
ToolbarSites(nodeList) ==
    {nodeList[n].siteId : n \in
        {n \in 1..Len(nodeList) :
            /\ nodeList[n].siteId # Undefined
            /\ StartsWith(nodeList[n].id, sitePrefix)
            /\ EndsWith(nodeList[n].id, headerSuffix)}}

\* C30: the toolbar lists exactly the sites of the loaded topology
C30_ToolbarListsEverySite ==
    (status = "ok" /\ Valid(doc)) =>
        ToolbarSites(nodes) = {doc.sites[s].id : s \in 1..Len(doc.sites)}

-----------------------------------------------------------------------------
(* C28 *)

\* the nodes whose data.selected is true
SelectedNodes == {n \in 1..Len(rfNodes) : IsSelected(rfNodes[n])}

\* C28: at most one node is selected, and a click on a device node or a
\* search selection of it leaves exactly that node selected
C28_AtMostOneNodeSelected ==
    /\ [](Cardinality(SelectedNodes) <= 1)
    /\ [][\A n \in 1..Len(rfNodes) :
            (rfNodes[n].type = "networkNode" /\ Selects(n))
                => {m \in 1..Len(rfNodes') : IsSelected(rfNodes'[m])} = {n}]_vars

\* C28 witness: the second device node is the selected one and the first,
\* whose flag has been written, is not
C28_Witness ==
    /\ Displayed
    /\ \E n, m \in 1..Len(rfNodes) :
          /\ n # m
          /\ rfNodes[n].type = "networkNode" /\ rfNodes[m].type = "networkNode"
          /\ SelectedNodes = {n}
          /\ "selected" \in DOMAIN rfNodes[m]
          /\ rfNodes[n].x = DropPosition.x

-----------------------------------------------------------------------------
(* C23 *)

\* the ids of the elements of a list
IdsOf(elements) == {elements[i].id : i \in 1..Len(elements)}

\* the diagram holds nodes and edges of document d only
HoldsOnly(d) ==
    /\ IdsOf(rfNodes) \subseteq IdsOf(ParseResult(d).nodes)
    /\ IdsOf(rfEdges) \subseteq IdsOf(ParseResult(d).edges)

\* the error state a document gives
ErrorOf(d) ==
    IF IsBlank(d) THEN NoConfigurationMessage
    ELSE IF ParseResult(d).status = "ok" THEN Null
    ELSE FailedToParseMessage

\* C23 as stated: when no run is in progress, the nodes, the edges and the
\* error are those of the most recent document
C23_StateIsOfLatestDocument ==
    loading = Null =>
        /\ error = ErrorOf(yamlContent)
        /\ IF IsBlank(yamlContent) THEN HoldsOnly([sites |-> <<>>])
           ELSE HoldsOnly(yamlContent)

\* C23: a run that ends is the run of the most recent document; when no
\* run is in progress the error is that of the most recent document, and
\* the nodes and edges are of the most recent document if it was blank or
\* parsed; after a document that failed to parse they are left as they
\* were, behind the error message
C23_LatestDocumentWins ==
    /\ [](loading # Null => loading = yamlContent)
    /\ [](loading = Null =>
            /\ error = ErrorOf(yamlContent)
            /\ IsBlank(yamlContent) => HoldsOnly([sites |-> <<>>])
            /\ error = Null => HoldsOnly(yamlContent))
    /\ [][(loading # Null /\ loading' = Null /\ ErrorOf(loading) = FailedToParseMessage)
            => UNCHANGED <<rfNodes, rfEdges>>]_vars

\* C23 witness: the third document at least is on screen: its run began
\* while the error of a failed document hid the nodes of a parsed one
C23_Witness ==
    /\ Displayed
    /\ atBegin.error /\ atBegin.nodes > 0
    /\ rfNodes = ParseResult(yamlContent).nodes
    /\ Len(rfNodes) > 0

-----------------------------------------------------------------------------
(* DraggableEdge: manual waypoints and their drag.  One edge is mounted;
   its anchors lie on one horizontal line, source left of target, so that
   the path without waypoints is the straight line between them.  A
   waypoint index is 1-based here, 0-based in the source. *)

\* the most waypoints the edge is given
MaxWaypoints == 2
\* the most onMouseMove/onMouseUp callbacks useCallback creates
MaxRenders == 4

DragXs == {0, 20, 40, 60}
DragYs == {0, 20}
\* the positions getPointOnPath returns and waypoints are dragged to
GridPoints == [x : DragXs, y : DragYs]
\* sourceX, sourceY
EdgeSource == [x |-> 0, y |-> 0]
\* targetX, targetY
EdgeTarget == [x |-> 60, y |-> 0]
\* (clientX - dragRef.current.x) / zoom, (clientY - dragRef.current.y) / zoom
MouseDeltas == {[x |-> 0, y |-> 20], [x |-> 0, y |-> 0 - 20]}

\* no waypoint is added closer than this to the source or the target
NearLimit == 20

\* [source, ...waypoints, target]
AllPoints(wps) == <<EdgeSource>> \o wps \o <<EdgeTarget>>

\* edgePath: straight segments through the waypoints, or the smooth step
\* path, which between anchors on one horizontal line is the straight line
EdgePath(wps) ==
    IF Len(wps) > 0
      THEN <<M(EdgeSource.x, EdgeSource.y)>>
           \o [i \in 1..Len(wps) |-> L(wps[i].x, wps[i].y)]
           \o <<L(EdgeTarget.x, EdgeTarget.y)>>
    ELSE <<M(EdgeSource.x, EdgeSource.y), L(EdgeTarget.x, EdgeTarget.y)>>

\* Math.hypot(p.x - q.x, p.y - q.y), squared
HypotSq(p, q) == (p.x - q.x) * (p.x - q.x) + (p.y - q.y) * (p.y - q.y)

\* every coordinate is a multiple of Cell
Cell == 2 * 10

\* distanceToSegment, squared, as a fraction, in units of Cell (which of
\* two distances is the smaller does not depend on the unit)
DistanceToSegmentSq(point, start, end) ==
    LET A == (point.x - start.x) \div Cell
        B == (point.y - start.y) \div Cell
        C == (end.x - start.x) \div Cell
        D == (end.y - start.y) \div Cell
        dot == A * C + B * D
        lenSq == C * C + D * D
    IN  IF lenSq = 0 \/ dot < 0 THEN [num |-> A * A + B * B, den |-> 1]
        ELSE IF dot > lenSq THEN [num |-> (A - C) * (A - C) + (B - D) * (B - D), den |-> 1]
        ELSE [num |-> (A * D - B * C) * (A * D - B * C), den |-> lenSq]

\* dist < bestDistance
Closer(f, g) == f.num * g.den < g.num * f.den

\* the point lies on the segment
OnSegment(point, start, end) == DistanceToSegmentSq(point, start, end).num = 0

\* the point lies on the path drawn
OnEdgePath(point, wps) ==
    \E i \in 1..(Len(wps) + 1) : OnSegment(point, AllPoints(wps)[i], AllPoints(wps)[i + 1])

\* bestSegmentIndex + 1: the first of the segments nearest to the point
BestSegment(point, wps) ==
    LET all == AllPoints(wps)
        dist(i) == DistanceToSegmentSq(point, all[i], all[i + 1])
        segments == 1..(Len(all) - 1)
    IN  CHOOSE i \in segments :
            /\ \A j \in segments : ~Closer(dist(j), dist(i))
            /\ \A j \in segments : j < i => Closer(dist(i), dist(j))

\* the element replaces the one at the index
Splice_replace(list, index, element) ==
    SubSeq(list, 1, index - 1) \o <<element>> \o SubSeq(list, index + 1, Len(list))

\* list.splice(index - 1, 0, element)
Splice(list, index, element) ==
    SubSeq(list, 1, index - 1) \o <<element>> \o SubSeq(list, index, Len(list))

\* newWaypoints.findIndex(wp => wp.x === point.x && wp.y === point.y), plus 1
FindPoint(wps, point) ==
    CHOOSE i \in 1..Len(wps) :
        /\ wps[i] = point
        /\ \A j \in 1..(i - 1) : wps[j] # point

\* useCallback: onMouseMove and onMouseUp of one render, with the
\* isDragging and dragIndex they closed over
Callbacks(gen, dragging, index) ==
    [gen |-> gen, isDragging |-> dragging, dragIndex |-> index]

\* window.addEventListener with a pair of callbacks
Register(registered, pair) ==
    IF \E i \in 1..Len(registered) : registered[i] = pair THEN registered
    ELSE Append(registered, pair)

\* window.removeEventListener with a pair of callbacks
Unregister(registered, pair) == SelectSeq(registered, LAMBDA l : l # pair)

\* the render after a handler: isDragging or dragIndex changed, so
\* onMouseMove and onMouseUp are made anew and the cleanup of the effect
\* removes the former pair from window; the mouse-down handlers are made
\* anew when the waypoints array is another one, which without waypoints is
\* at every render
Rerender(registered, edgesSet) ==
    /\ IF <<isDragging', dragIndex'>> # <<isDragging, dragIndex>>
         THEN /\ callbacks.gen < MaxRenders
              /\ callbacks' = Callbacks(callbacks.gen + 1, isDragging', dragIndex')
              /\ listeners' = Unregister(registered, callbacks)
         ELSE /\ callbacks' = callbacks
              /\ listeners' = registered
    /\ handlers' = IF edgesSet \/ waypoints = <<>> THEN callbacks' ELSE handlers

\* the edge is mounted
InitDrag ==
    /\ doc = [sites |-> <<>>]
    /\ status = "idle" /\ nodes = <<>> /\ edges = <<>>
    /\ RouteIdle /\ MapIdle /\ AdminIdle
    /\ waypoints = <<>> /\ insertedAt = <<>>
    /\ isDragging = FALSE /\ dragIndex = NoIndex
    /\ callbacks = Callbacks(1, FALSE, NoIndex)
    /\ handlers = callbacks
    /\ listeners = <<>>
    /\ lastEvent = "none"

\* onEdgeMouseDown, on a single click without a panning key
EdgeMouseDown ==
    \E point \in GridPoints :
        /\ OnEdgePath(point, waypoints)
        /\ ~(HypotSq(point, EdgeSource) < NearLimit * NearLimit)
        /\ ~(HypotSq(point, EdgeTarget) < NearLimit * NearLimit)
        /\ Len(waypoints) < MaxWaypoints
        /\ LET index == IF Len(waypoints) = 0 THEN 1 ELSE BestSegment(point, waypoints)
           IN  /\ waypoints' = Splice(waypoints, index, point)
               /\ insertedAt' = Splice(insertedAt, index, Len(waypoints) + 1)
        /\ isDragging' = TRUE
        /\ dragIndex' = <<FindPoint(waypoints', point)>>
        /\ Rerender(Register(listeners, handlers), TRUE)
        /\ lastEvent' = "mousedown"
        /\ UNCHANGED <<parseVars, routeVars, mapVars, adminVars>>

\* handleEdgeClick, on a double click
EdgeDoubleClick ==
    \E point \in GridPoints :
        /\ OnEdgePath(point, waypoints)
        /\ Len(waypoints) < MaxWaypoints
        /\ waypoints' = Append(waypoints, point)
        /\ insertedAt' = Append(insertedAt, Len(waypoints) + 1)
        /\ UNCHANGED <<isDragging, dragIndex>>
        /\ Rerender(listeners, TRUE)
        /\ lastEvent' = "dblclick"
        /\ UNCHANGED <<parseVars, routeVars, mapVars, adminVars>>

\* onWaypointMouseDown(index), on the handle of a waypoint
WaypointMouseDown ==
    \E index \in 1..Len(waypoints) :
        /\ isDragging' = TRUE
        /\ dragIndex' = <<index>>
        /\ Rerender(Register(listeners, handlers), FALSE)
        /\ lastEvent' = "mousedown"
        /\ UNCHANGED <<waypoints, insertedAt, parseVars, routeVars, mapVars, adminVars>>

\* the registered onMouseMove that do not return at once
Moving == SelectSeq(listeners, LAMBDA l : l.isDragging /\ l.dragIndex # NoIndex)

\* the waypoint moved by (dx, dy)
Shifted(point, delta) == [x |-> point.x + delta.x, y |-> point.y + delta.y]

\* a mousemove event on window: every registered onMouseMove runs; the
\* first that does not return moves the waypoint of its dragIndex and
\* sets dragRef, the others then find no distance left to move by
WindowMouseMove ==
    \E delta \in MouseDeltas :
        /\ lastEvent' = "mousemove"
        /\ IF Moving = <<>>
             THEN UNCHANGED <<waypoints, handlers>>
           ELSE LET index == Moving[1].dragIndex[1] IN
                /\ Shifted(waypoints[index], delta) \in GridPoints
                /\ waypoints' = [waypoints EXCEPT ![index] = Shifted(@, delta)]
                /\ handlers' = callbacks
        /\ UNCHANGED <<insertedAt, isDragging, dragIndex, callbacks, listeners>>
        /\ UNCHANGED <<parseVars, routeVars, mapVars, adminVars>>

\* a mouseup event on window: every registered onMouseUp runs and
\* removes itself and its onMouseMove
WindowMouseUp ==
    /\ lastEvent' = "mouseup"
    /\ IF listeners = <<>>
         THEN UNCHANGED <<isDragging, dragIndex, callbacks, handlers, listeners>>
       ELSE /\ isDragging' = FALSE
            /\ dragIndex' = NoIndex
            /\ Rerender(<<>>, FALSE)
    /\ UNCHANGED <<waypoints, insertedAt, parseVars, routeVars, mapVars, adminVars>>

NextDrag ==
    \/ EdgeMouseDown
    \/ EdgeDoubleClick
    \/ WaypointMouseDown
    \/ WindowMouseMove
    \/ WindowMouseUp

SpecDrag == InitDrag /\ [][NextDrag]_vars

-----------------------------------------------------------------------------
(* C21 *)

\* the list without the element at the index
RemoveAt(list, index) == SubSeq(list, 1, index - 1) \o SubSeq(list, index + 1, Len(list))

\* the path goes straight from the source through the waypoints, in the
\* order of the array, to the target
StraightThroughWaypoints ==
    LET p == EdgePath(waypoints) IN
    /\ Len(p) = Len(waypoints) + 2
    /\ p[1] = M(EdgeSource.x, EdgeSource.y)
    /\ \A i \in 1..Len(waypoints) : p[i + 1] = L(waypoints[i].x, waypoints[i].y)
    /\ p[Len(p)] = L(EdgeTarget.x, EdgeTarget.y)

\* C21 as stated: the path visits the waypoints in the order in which they
\* were inserted
C21_PathVisitsInInsertionOrder ==
    /\ waypoints # <<>> => StraightThroughWaypoints
    /\ \A i, j \in 1..Len(insertedAt) : i < j => insertedAt[i] < insertedAt[j]

\* C21: with waypoints the path goes straight source -> waypoints ->
\* target in the order of the waypoints array; an insertion leaves the
\* waypoints there were in the array, in the order they had; a double
\* click adds the new waypoint at the end, a mouse-down on the path adds it
\* between the two points of the path it lies between
C21_InsertionKeepsPathOrder ==
    /\ [](waypoints # <<>> => StraightThroughWaypoints)
    /\ [][(waypoints' # waypoints /\ lastEvent' \in {"mousedown", "dblclick"}) =>
            \E k \in 1..Len(waypoints') :
                /\ RemoveAt(waypoints', k) = waypoints
                /\ RemoveAt(insertedAt', k) = insertedAt
                /\ insertedAt'[k] = Len(waypoints')
                /\ lastEvent' = "dblclick" => k = Len(waypoints')
                /\ lastEvent' = "mousedown" =>
                       OnSegment(waypoints'[k], AllPoints(waypoints')[k],
                                 AllPoints(waypoints')[k + 2])]_vars

\* C21 witness: a mouse-down has put the second waypoint before the first
C21_Witness ==
    /\ lastEvent = "mousedown"
    /\ insertedAt = <<2, 1>>
    /\ EdgePath(waypoints) = <<M(0, 0), L(20, 0), L(40, 0), L(60, 0)>>

-----------------------------------------------------------------------------
(* C26 *)

\* C26: the mouse-up that follows a mouse-down leaves isDragging false,
\* dragIndex null and no listener on window
C26_MouseUpEndsTheDrag ==
    lastEvent = "mouseup" =>
        /\ isDragging = FALSE
        /\ dragIndex = NoIndex
        /\ listeners = <<>>

====
